---- MODULE Spec2Model ----
(***************************************************************************)
(* Report-to-cycle reconstruction engine of unified_pdf_to_csv_test.py:    *)
(* header normalizer, block/entry parser, patient grouper, cycle           *)
(* reconstructor and tabular emitter.                                      *)
(*                                                                         *)
(* A Python str is a sequence of one-character strings; a text is the      *)
(* non-empty sequence of its lines (text.split('\n')), so the empty text   *)
(* is << <<>> >>.                                                          *)
(***************************************************************************)
EXTENDS Integers, Sequences, FiniteSets, TLC

VARIABLES
    pc,               \* position in the function being run
    text,             \* remove_page_headers: the argument of the current pass
    rph,              \* remove_page_headers: its locals (lines, i, cleaned_lines, ...)
    result1,          \* remove_page_headers(text)
    result2,          \* remove_page_headers(remove_page_headers(text))
    cleaned_text,     \* parse_with_python: its argument, as lines
    metadata_text,    \* split_text_by_sections(cleaned_text)[0], as lines
    psp,              \* parse_section_with_python: its locals for the section being parsed
    admissions_data,  \* parse_with_python: the Admissions section dict
    discharges_data,  \* parse_with_python: the Discharges section dict
    structured_data,  \* the dict parse_with_python returns
    patient_grouped_data, \* the dict create_patient_grouped_json returns, names cleaned
    patient_index,    \* create_cycles_csv: how many patients are done
    fsc,              \* find_subsequent_cycles: its locals for the current patient
    cycles_data,      \* create_cycles_csv: the rows
    psf,              \* process_single_pdf: its locals (extracted_text, cleaned_text, ...)
    pdf_result,       \* the dict process_single_pdf returns
    pf,               \* process_folder: its locals (pdf_files, futures, results, ...)
    batch_summary,    \* the dict process_folder returns
    job_status,       \* backend.config.job_status: job_id -> status dict
    up,               \* upload_files: its locals (the request, the files saved, ...)
    background_tasks, \* the tasks upload_files has added to BackgroundTasks
    response          \* what upload_files answers: a body or an HTTPException

\* None where a str is expected (no str is a sequence holding a longer string)
None == <<"None">>
\* None where a dictionary key or category name is expected
NoKey == "None"

(***************************************************************************)
(* Characters and str methods                                              *)
(***************************************************************************)
UpperSeq == <<"A","B","C","D","E","F","G","H","I","J","K","L","M","N","O","P","Q","R","S","T","U","V","W","X","Y","Z">>
LowerSeq == <<"a","b","c","d","e","f","g","h","i","j","k","l","m","n","o","p","q","r","s","t","u","v","w","x","y","z">>
DigitSeq == <<"0","1","2","3","4","5","6","7","8","9">>
Range(f) == {f[n] : n \in DOMAIN f}
Upper == Range(UpperSeq)
Lower == Range(LowerSeq)
Digit == Range(DigitSeq)
Alpha == Upper \cup Lower
\* str.isspace / \s, over the characters a line can hold here
WS == {" ", "\t"}
\* \w
WordCh == Alpha \cup Digit \cup {"_"}

Max(a, b) == IF a > b THEN a ELSE b

ToLowerCh(c) == IF c \in Upper THEN LowerSeq[CHOOSE n \in DOMAIN UpperSeq : UpperSeq[n] = c] ELSE c
ToUpperCh(c) == IF c \in Lower THEN UpperSeq[CHOOSE n \in DOMAIN LowerSeq : LowerSeq[n] = c] ELSE c
\* str.lower(), str.upper()
StrLower(s) == [n \in DOMAIN s |-> ToLowerCh(s[n])]
StrUpper(s) == [n \in DOMAIN s |-> ToUpperCh(s[n])]

\* s[a:b] with 0-based, already clamped indices
Slice(s, a, b) == SubSeq(s, a + 1, b)

\* str.lstrip(chars), str.rstrip(chars), str.strip(chars)
RECURSIVE LStripCh(_, _)
LStripCh(s, cs) == IF s # <<>> /\ Head(s) \in cs THEN LStripCh(Tail(s), cs) ELSE s
RECURSIVE RStripCh(_, _)
RStripCh(s, cs) == IF s # <<>> /\ s[Len(s)] \in cs THEN RStripCh(SubSeq(s, 1, Len(s) - 1), cs) ELSE s
StripCh(s, cs) == RStripCh(LStripCh(s, cs), cs)
\* str.strip(), str.rstrip() of one line
Strip(s) == StripCh(s, WS)
RStrip(s) == RStripCh(s, WS)

\* str.startswith, str.endswith, `sub in s`
StartsWith(s, p) == Len(p) <= Len(s) /\ SubSeq(s, 1, Len(p)) = p
EndsWith(s, p) == Len(p) <= Len(s) /\ SubSeq(s, Len(s) - Len(p) + 1, Len(s)) = p
Occurs(s, p) == {n \in 0..(Len(s) - Len(p)) : SubSeq(s, n + 1, n + Len(p)) = p}
Contains(s, p) == Occurs(s, p) # {}
SetMin(S) == CHOOSE x \in S : \A y \in S : x <= y
SetMax(S) == CHOOSE x \in S : \A y \in S : x >= y
\* str.find / str.index (first occurrence, 0-based, -1 when absent), str.rfind
Find(s, p) == IF Contains(s, p) THEN SetMin(Occurs(s, p)) ELSE -1
RFind(s, p) == IF Contains(s, p) THEN SetMax(Occurs(s, p)) ELSE -1

\* str.split(): the whitespace-separated words
RECURSIVE SplitWS(_)
SplitWS(s) ==
    LET t == LStripCh(s, WS)
        e == IF \E n \in DOMAIN t : t[n] \in WS
             THEN SetMin({n \in DOMAIN t : t[n] \in WS}) ELSE Len(t) + 1
    IN IF t = <<>> THEN <<>>
       ELSE <<SubSeq(t, 1, e - 1)>> \o SplitWS(SubSeq(t, e, Len(t)))
\* sep.join(parts)
RECURSIVE Join(_, _)
Join(parts, sep) ==
    IF parts = <<>> THEN <<>>
    ELSE IF Len(parts) = 1 THEN parts[1]
    ELSE parts[1] \o sep \o Join(Tail(parts), sep)
\* ' '.join(s.split())
Squeeze(s) == Join(SplitWS(s), <<" ">>)

(***************************************************************************)
(* Regular expressions (module re): a pattern is a tree; Ends(re, s, i) is *)
(* the set of 1-based positions j such that re matches s[i..j-1].          *)
(***************************************************************************)
Lit(str) == [k |-> "lit", s |-> str]
Cls(chars) == [k |-> "cls", cs |-> chars]
AnyCh == [k |-> "any"]
Cat(res) == [k |-> "cat", rs |-> res]
Alt(res) == [k |-> "alt", rs |-> res]
\* r{lo,hi}; hi = -1 is unbounded
Rep(r, lo, hi) == [k |-> "rep", r |-> r, lo |-> lo, hi |-> hi]
Star(r) == Rep(r, 0, -1)
Plus(r) == Rep(r, 1, -1)
Opt(r) == Rep(r, 0, 1)

RECURSIVE Ends(_, _, _)
Ends(re, s, i) ==
    CASE re.k = "lit" ->
           IF i + Len(re.s) - 1 <= Len(s) /\ SubSeq(s, i, i + Len(re.s) - 1) = re.s
           THEN {i + Len(re.s)} ELSE {}
      [] re.k = "cls" -> IF i <= Len(s) /\ s[i] \in re.cs THEN {i + 1} ELSE {}
      [] re.k = "any" -> IF i <= Len(s) THEN {i + 1} ELSE {}
      [] re.k = "cat" ->
           IF re.rs = <<>> THEN {i}
           ELSE UNION {Ends(Cat(Tail(re.rs)), s, j) : j \in Ends(Head(re.rs), s, i)}
      [] re.k = "alt" -> UNION {Ends(re.rs[n], s, i) : n \in DOMAIN re.rs}
      [] re.k = "rep" ->
           (IF re.lo = 0 THEN {i} ELSE {}) \cup
           (IF re.hi = 0 THEN {}
            ELSE UNION {Ends(Rep(re.r, Max(re.lo - 1, 0),
                                 IF re.hi > 0 THEN re.hi - 1 ELSE re.hi), s, j)
                        : j \in Ends(re.r, s, i) \ {i}})
\* re.match(pattern, s) for a pattern without a trailing $
MatchPrefix(re, s) == Ends(re, s, 1) # {}
\* re.match(pattern, s) for a pattern ending in $ (s holds no newline)
MatchFull(re, s) == (Len(s) + 1) \in Ends(re, s, 1)

(***************************************************************************)
(* Header Normalizer: remove_page_headers                                  *)
(***************************************************************************)
D12 == Rep(Cls(Digit), 1, 2)
D4 == Rep(Cls(Digit), 4, 4)
\* \d{1,2}/\d{1,2}/\d{4}
SlashDate == Cat(<<D12, Lit(<<"/">>), D12, Lit(<<"/">>), D4>>)

\* header_patterns: (pattern, ends with $, category), in list order
header_patterns == <<
    [re |-> Cat(<<Lit(<<"M","e","d","i","l","o","d","g","e"," ">>),
                  Alt(<<Lit(<<"a","t"," ","t","h","e"," ","S","h","o","r","e">>),
                        Cat(<<Lit(<<"o","f"," ">>), Plus(Cls(Alpha \cup WS)), Opt(Lit(<<" ","-"," ","S","N","F">>))>>)>>)>>),
     full |-> TRUE, category |-> "facility_name"],
    [re |-> Cat(<<Lit(<<"D","a","t","e",":"," ">>), Plus(Cls(WordCh)), Lit(<<" ">>), Plus(Cls(Digit)),
                  Lit(<<","," ">>), D4>>),
     full |-> TRUE, category |-> "date"],
    [re |-> Cat(<<Lit(<<"T","i","m","e",":"," ">>), Rep(Cls(Digit), 2, 2), Lit(<<":">>), Rep(Cls(Digit), 2, 2),
                  Lit(<<":">>), Rep(Cls(Digit), 2, 2), Lit(<<" ","E","T">>)>>),
     full |-> FALSE, category |-> "time"],
    [re |-> Lit(<<"A","d","m","i","s","s","i","o","n","/","D","i","s","c","h","a","r","g","e"," ","T","o","/","F","r","o","m"," ","R","e","p","o","r","t">>),
     full |-> TRUE, category |-> "report_title"],
    [re |-> Cat(<<Lit(<<"A","d","m","i","s","s","i","o","n","s"," ">>), SlashDate, Lit(<<" ","T","o"," ">>), SlashDate,
                  Lit(<<" ","-"," ","D","i","s","c","h","a","r","g","e","s"," ">>), SlashDate, Lit(<<" ","T","o"," ">>), SlashDate,
                  Lit(<<"U","s","e","r",":">>), Star(AnyCh)>>),
     full |-> TRUE, category |-> "admissions_discharges"],
    [re |-> Cat(<<Lit(<<"P","a","g","e"," ">>), Plus(Cls(Digit)), Lit(<<" ","o","f"," ">>), Plus(Cls(Digit))>>),
     full |-> TRUE, category |-> "page_number"],
    [re |-> Lit(<<"D","e","t","a","i","l">>), full |-> TRUE, category |-> "detail"],
    [re |-> Cat(<<Lit(<<"F","a","c","i","l","i","t","i","e","s",":">>), Star(AnyCh)>>), full |-> TRUE, category |-> "facilities"],
    [re |-> Cat(<<Lit(<<"A","d","m","i","s","s","i","o","n","s",":">>), Star(AnyCh)>>), full |-> TRUE, category |-> "admissions_label"],
    [re |-> Cat(<<Lit(<<"D","i","s","c","h","a","r","g","e","s",":">>), Star(AnyCh)>>), full |-> TRUE, category |-> "discharges_label"],
    [re |-> Cat(<<Lit(<<"R","e","p","o","r","t"," ","b","y",":">>), Star(AnyCh)>>), full |-> TRUE, category |-> "report_by"],
    [re |-> Cat(<<Lit(<<"R","e","p","o","r","t",":">>), Star(AnyCh)>>), full |-> TRUE, category |-> "report"],
    [re |-> Cat(<<Lit(<<"S","o","r","t"," ","b","y",":">>), Star(AnyCh)>>), full |-> TRUE, category |-> "sort_by"] >>

PatternMatches(p, s) == IF p.full THEN MatchFull(p.re, s) ELSE MatchPrefix(p.re, s)

\* the category of the first pattern of header_patterns that matches (the loop breaks there)
MatchedCategory(line_stripped) ==
    LET hits == {n \in DOMAIN header_patterns : PatternMatches(header_patterns[n], line_stripped)}
    IN IF hits = {} THEN NoKey ELSE header_patterns[SetMin(hits)].category

\* header_key of the multi-line header check
HeaderKey(line_stripped) ==
    IF StartsWith(line_stripped, <<"R","e","p","o","r","t"," ","b","y",":">>) THEN "report_by_multiline"
    ELSE IF StartsWith(line_stripped, <<"T","o","/","F","r","o","m"," ","T","y","p","e",":">>) THEN "to_from_type"
    ELSE IF Contains(line_stripped, <<"C","o","u","r","t","/","L","a","w"," ","E","n","f","o","r","c","e","m","e","n","t">>) THEN "court_law_enforcement"
    ELSE IF StartsWith(line_stripped, <<"F","a","c","i","l","i","t","i","e","s",":">>) /\ Contains(line_stripped, <<"M","e","d","i","l","o","d","g","e">>)
         THEN "facilities_multiline"
    ELSE NoKey

\* f'{header_key}_continuation'
ContinuationKey(header_key) ==
    CASE header_key = "report_by_multiline" -> "report_by_multiline_continuation"
      [] header_key = "to_from_type" -> "to_from_type_continuation"
      [] header_key = "court_law_enforcement" -> "court_law_enforcement_continuation"
      [] header_key = "facilities_multiline" -> "facilities_multiline_continuation"

\* the next line names facility types
IsContinuation(next_line) ==
    \/ Contains(StrLower(next_line), <<"a","n","d"," ","c","a","r","e">>)
    \/ Contains(StrLower(next_line), <<"n","u","r","s","i","n","g"," ","h","o","m","e">>)
    \/ Contains(StrLower(next_line), <<"r","e","h","a","b","i","l","i","t","a","t","i","o","n">>)

\* the locals of remove_page_headers on entry to the while loop
RphStart(t) ==
    [lines |-> t, cleaned_lines |-> <<>>, seen_headers |-> {},
     seen_multi_line_headers |-> {}, header_count |-> 0, i |-> 0]

\* one iteration of the while loop (i is the 0-based index of the source)
RphIter(st) ==
    LET lines == st.lines
        line == lines[st.i + 1]
        line_stripped == Strip(line)
        category == MatchedCategory(line_stripped)
        single_repeat == category # NoKey /\ category \in st.seen_headers
        single_first == category # NoKey /\ category \notin st.seen_headers
        s1 == [st EXCEPT !.seen_headers = IF single_first THEN @ \cup {category} ELSE @,
                         !.cleaned_lines = IF single_first THEN Append(@, line) ELSE @,
                         !.header_count = IF single_repeat THEN @ + 1 ELSE @]
        header_key == HeaderKey(line_stripped)
        next_is_continuation ==
            st.i + 1 < Len(lines) /\ IsContinuation(Strip(lines[st.i + 2]))
    IN IF ~single_repeat /\ line_stripped # <<>> /\ header_key # NoKey
       THEN IF header_key \in s1.seen_multi_line_headers
            THEN \* repeat: the line is dropped; when its continuation was seen
                 \* before, `i += 1; continue` moves on to the continuation line
                 IF next_is_continuation
                    /\ ContinuationKey(header_key) \in s1.seen_multi_line_headers
                 THEN [s1 EXCEPT !.header_count = @ + 2, !.i = @ + 1]
                 ELSE [s1 EXCEPT !.header_count = @ + 1, !.i = @ + 1]
            ELSE LET s2 == [s1 EXCEPT !.seen_multi_line_headers = @ \cup {header_key},
                                      !.cleaned_lines = Append(@, line)]
                 IN IF next_is_continuation
                    THEN IF ContinuationKey(header_key) \in s2.seen_multi_line_headers
                         THEN [s2 EXCEPT !.header_count = @ + 1, !.i = @ + 1]
                         ELSE [s2 EXCEPT
                                 !.seen_multi_line_headers = @ \cup {ContinuationKey(header_key)},
                                 !.cleaned_lines = Append(@, lines[st.i + 2]),
                                 !.i = @ + 2]
                    ELSE [s2 EXCEPT !.i = @ + 1]
       ELSE [s1 EXCEPT !.cleaned_lines = IF ~single_repeat THEN Append(@, line) ELSE @,
                       !.i = @ + 1]

\* '\n'.join(lines) as one str, and the text a str splits into
NL == "\n"
JoinLines(lines) == Join(lines, <<NL>>)
AsText(lines) == IF lines = <<>> THEN << <<>> >> ELSE lines
\* len(s.strip()) of a whole text
StripLen(lines) == Len(StripCh(JoinLines(lines), WS \cup {NL}))
IsEmptyText(t) == t = << <<>> >>

\* RphReturn without the check of the character lengths
RphReturnNoLengthCheck(t, st) ==
    LET cleaned_lines == st.cleaned_lines
        result == AsText(cleaned_lines)
    IN IF 2 * Len(cleaned_lines) < Len(st.lines) THEN t
       ELSE IF IsEmptyText(result) \/ StripLen(result) = 0 THEN t
       ELSE result
\* the safety checks after the loop and the value returned
RphReturn(t, st) ==
    LET cleaned_lines == st.cleaned_lines
        result == AsText(cleaned_lines)
    IN IF 2 * Len(cleaned_lines) < Len(st.lines) THEN t
       ELSE IF 10 * StripLen(result) < 3 * StripLen(t) THEN t
       ELSE IF IsEmptyText(result) \/ StripLen(result) = 0 THEN t
       ELSE result

RECURSIVE RphLoop(_)
RphLoop(st) == IF st.i < Len(st.lines) THEN RphLoop(RphIter(st)) ELSE st
\* remove_page_headers(text)
remove_page_headers(t) ==
    IF IsEmptyText(t) THEN << <<>> >> ELSE RphReturn(t, RphLoop(RphStart(t)))

(***************************************************************************)
(* Name Cleaner: clean_name_punctuation; normalize_date                    *)
(***************************************************************************)
AllowedCh == Alpha \cup Digit \cup {" ", "-", "'", "."}
\* the punctuation the source lists (its grave accent is left out: it is dropped like
\* every other character that is neither allowed nor whitespace)
SpecialCh == {"&", "=", "+", "*", "^", "%", "$", "#", "@", "!", "~", "|", "\\", "/",
              "<", ">", "[", "]", "{", "}"}
\* the character filter: allowed characters kept, whitespace becomes a space,
\* everything else dropped
RECURSIVE KeepAllowed(_)
KeepAllowed(name) ==
    IF name = <<>> THEN <<>>
    ELSE (IF Head(name) \in AllowedCh THEN <<Head(name)>>
          ELSE IF Head(name) \in SpecialCh THEN <<>>
          ELSE IF Head(name) \in WS THEN <<" ">>
          ELSE <<>>) \o KeepAllowed(Tail(name))
clean_name_punctuation(name) ==
    IF name = <<>> THEN <<>>
    ELSE Squeeze(StripCh(Strip(KeepAllowed(name)), SpecialCh \cup WS))

\* str.split(sep) for a one-character sep
RECURSIVE SplitOn(_, _)
SplitOn(s, c) ==
    IF c \notin Range(s) THEN <<s>>
    ELSE LET n == SetMin({m \in DOMAIN s : s[m] = c})
         IN <<SubSeq(s, 1, n - 1)>> \o SplitOn(SubSeq(s, n + 1, Len(s)), c)
\* str.zfill(2)
ZFill2(s) == IF Len(s) = 0 THEN <<"0", "0">> ELSE IF Len(s) = 1 THEN <<"0">> \o s ELSE s
\* MM/DD/YYYY to YYYY-MM-DD
normalize_date(date_str) ==
    LET parts == SplitOn(date_str, "/")
    IN IF Len(parts) = 3
       THEN parts[3] \o <<"-">> \o ZFill2(parts[1]) \o <<"-">> \o ZFill2(parts[2])
       ELSE date_str

(***************************************************************************)
(* Block/Entry Parser: extract_patient_from_line                           *)
(***************************************************************************)
\* id_pattern that takes an id of any length up to 10
id_pattern_AnyLength == <<Lit(<<"(">>), Rep(Cls(Upper \cup Digit), 1, 10), Lit(<<")">>),
                          Plus(Cls(WS)), SlashDate>>
\* id_pattern = \(([A-Z0-9]{4,10})\)\s+(\d{1,2}/\d{1,2}/\d{4})$ as its five parts
id_pattern == <<Lit(<<"(">>), Rep(Cls(Upper \cup Digit), 4, 10), Lit(<<")">>),
                Plus(Cls(WS)), SlashDate>>

\* the ways the parts of a concatenation match from position i: <<i, j1, .., jn>>
RECURSIVE Splits(_, _, _)
Splits(parts, s, i) ==
    IF parts = <<>> THEN {<<i>>}
    ELSE UNION {{<<i>> \o sp : sp \in Splits(Tail(parts), s, j)} : j \in Ends(Head(parts), s, i)}

\* id_pattern.search(line_text): leftmost match that ends at the end of the line
IdSearch(s) ==
    LET ms == UNION {{sp \in Splits(id_pattern, s, i) : sp[Len(sp)] = Len(s) + 1}
                     : i \in 1..Len(s)}
    IN IF ms = {} THEN [ok |-> FALSE]
       ELSE LET sp == CHOOSE m \in ms : \A o \in ms : m[1] <= o[1]
            IN [ok |-> TRUE, start |-> sp[1] - 1,
                group1 |-> SubSeq(s, sp[2], sp[3] - 1),
                group2 |-> SubSeq(s, sp[5], sp[6] - 1)]

\* re.match(r'^([A-Z][a-zA-Z\s\'-]{1,25})\s*$', after_comma): group 1 is greedy
first_name_group == Cat(<<Cls(Upper), Rep(Cls(Alpha \cup WS \cup {"'", "-"}), 1, 25)>>)
FirstNameMatch(after_comma) ==
    LET js == {j \in Ends(first_name_group, after_comma, 1) :
                 (Len(after_comma) + 1) \in Ends(Star(Cls(WS)), after_comma, j)}
    IN IF js = {} THEN [ok |-> FALSE]
       ELSE [ok |-> TRUE, group1 |-> SubSeq(after_comma, 1, SetMax(js) - 1)]

location_keywords == <<<<"C","O","M","M","U","N","I","T","Y">>, <<"H","O","S","P","I","T","A","L">>, <<"C","E","N","T","E","R">>, <<"C","A","R","E">>, <<"H","E","A","L","T","H">>,
                       <<"P","A","R","T","N","E","R","S">>, <<"H","O","M","E">>, <<"A","S","S","I","S","T","E","D">>, <<"L","I","V","I","N","G">>, <<"N","U","R","S","I","N","G">>,
                       <<"S","U","B","M","I","T">>, <<"U","N","D","E","C","I","D","E","D">>, <<"F","U","N","E","R","A","L">>>>

\* comma_positions (0-based): after an '&' the commas of the stripped name part,
\* offset by amp_pos + 1; otherwise every comma of before_id
CommaPositions(before_id) ==
    LET all == {n \in 0..(Len(before_id) - 1) : before_id[n + 1] = ","}
    IN IF Contains(before_id, <<"&">>)
       THEN LET amp_pos == RFind(before_id, <<"&">>)
                name_part_after_amp == Strip(Slice(before_id, amp_pos + 1, Len(before_id)))
                after == {amp_pos + 1 + n : n \in {m \in 0..(Len(name_part_after_amp) - 1) :
                                                     name_part_after_amp[m + 1] = ","}}
            IN IF after # {} THEN after ELSE all
       ELSE all

LastTwo(words) == Join(SubSeq(words, Len(words) - 1, Len(words)), <<" ">>)

\* the body of `for comma_pos in reversed(comma_positions)` for one comma
NameAtComma(before_id, comma_pos, id_match) ==
    LET after_comma == Strip(Slice(before_id, comma_pos + 1, Len(before_id)))
        first_name_match == FirstNameMatch(after_comma)
    IN IF ~first_name_match.ok THEN [ok |-> FALSE]
       ELSE
       LET first_name0 == Strip(first_name_match.group1)
           last_name0 == Strip(Slice(before_id, 0, comma_pos))
           first_words == SplitWS(first_name0)
           last_words == SplitWS(last_name0)
       IN IF ~(Len(first_words) <= 2 /\ Len(first_name0) <= 25) THEN [ok |-> FALSE]
          ELSE
          LET last_name1 == clean_name_punctuation(Squeeze(last_name0))
              first_name1 == clean_name_punctuation(Squeeze(first_name0))
              last_words_after_clean == SplitWS(last_name1)
              last_name2 == IF Len(last_words_after_clean) > 3
                            THEN LastTwo(last_words_after_clean) ELSE last_name1
              last_name_upper == StrUpper(last_name2)
              has_keyword == \E k \in DOMAIN location_keywords :
                                Contains(last_name_upper, location_keywords[k])
              last_name3 ==
                  IF Len(last_words) > 3 \/ has_keyword
                  THEN IF Len(last_words) >= 2
                       THEN IF StrUpper(last_words[Len(last_words) - 1]) \in Range(location_keywords)
                            THEN last_words[Len(last_words)]
                            ELSE LastTwo(last_words)
                       ELSE IF last_words # <<>> THEN last_words[Len(last_words)] ELSE last_name2
                  ELSE last_name2
          IN [ok |-> TRUE,
              last_name |-> clean_name_punctuation(Squeeze(last_name3)),
              first_name |-> clean_name_punctuation(Squeeze(first_name1)),
              resident_id |-> id_match.group1,
              date_str |-> id_match.group2,
              original_before_comma |-> last_name0]

\* the loop over reversed(comma_positions): the rightmost comma that yields a name
RECURSIVE TryCommas(_, _, _)
TryCommas(before_id, comma_positions, id_match) ==
    IF comma_positions = {} THEN [ok |-> FALSE]
    ELSE LET comma_pos == SetMax(comma_positions)
             r == NameAtComma(before_id, comma_pos, id_match)
         IN IF r.ok THEN r
            ELSE TryCommas(before_id, comma_positions \ {comma_pos}, id_match)

extract_patient_from_line(line_text) ==
    LET id_match == IdSearch(line_text)
    IN IF ~id_match.ok THEN [ok |-> FALSE]
       ELSE LET before_id == RStrip(Slice(line_text, 0, id_match.start))
            IN TryCommas(before_id, CommaPositions(before_id), id_match)

(***************************************************************************)
(* Block/Entry Parser: parse_section_with_python                           *)
(***************************************************************************)
FT_AcuteCareHospital == <<"A","c","u","t","e"," ","c","a","r","e"," ","h","o","s","p","i","t","a","l">>
FT_FuneralHome == <<"F","u","n","e","r","a","l"," ","H","o","m","e">>
FT_NursingHome == <<"N","u","r","s","i","n","g"," ","h","o","m","e">>
FT_PrivateHomeWithHHS == <<"P","r","i","v","a","t","e"," ","h","o","m","e","/","a","p","t","."," ","w","i","t","h"," ","h","o","m","e"," ","h","e","a","l","t","h"," ","s","e","r","v","i","c","e","s">>
FT_PrivateHomeNoHHS == <<"P","r","i","v","a","t","e"," ","h","o","m","e","/","a","p","t","."," ","w","i","t","h"," ","n","o"," ","h","o","m","e"," ","h","e","a","l","t","h"," ","s","e","r","v","i","c","e","s">>
FT_HomeWithHospice == <<"H","o","m","e"," ","w","i","t","h"," ","H","o","s","p","i","c","e">>
FT_BoardAndCare == <<"B","o","a","r","d"," ","a","n","d"," ","c","a","r","e","/","a","s","s","i","s","t","e","d"," ","l","i","v","i","n","g","/","g","r","o","u","p"," ","h","o","m","e">>
FT_OtherHealthFacility == <<"O","t","h","e","r"," ","H","e","a","l","t","h"," ","F","a","c","i","l","i","t","y">>
FT_Other == <<"O","t","h","e","r">>
FT_Unknown == <<"U","n","k","n","o","w","n">>
FT_PsychiatricHospital == <<"P","s","y","c","h","i","a","t","r","i","c"," ","h","o","s","p","i","t","a","l",","," ","M","R","/","D","D"," ","f","a","c","i","l","i","t","y">>
FT_RehabilitationHospital == <<"R","e","h","a","b","i","l","i","t","a","t","i","o","n"," ","h","o","s","p","i","t","a","l">>
\* the list parse_with_python hands to both sections, in its order
\* facility_types with 'Other' moved in front of 'Other Health Facility'
facility_types_OtherFirst ==
    <<FT_AcuteCareHospital, FT_FuneralHome, FT_NursingHome, FT_PrivateHomeWithHHS,
      FT_PrivateHomeNoHHS, FT_HomeWithHospice, FT_BoardAndCare, FT_Other,
      FT_OtherHealthFacility, FT_Unknown, FT_PsychiatricHospital, FT_RehabilitationHospital>>
facility_types == <<FT_AcuteCareHospital, FT_FuneralHome, FT_NursingHome, FT_PrivateHomeWithHHS,
                    FT_PrivateHomeNoHHS, FT_HomeWithHospice, FT_BoardAndCare,
                    FT_OtherHealthFacility, FT_Other, FT_Unknown, FT_PsychiatricHospital,
                    FT_RehabilitationHospital>>

\* the first facility type of the list the line starts with, or None
MatchedType(line) ==
    LET hits == {n \in DOMAIN facility_types : StartsWith(line, facility_types[n])}
    IN IF hits = {} THEN None ELSE facility_types[SetMin(hits)]

\* an entry dict: its type and location keys carry key_prefix ('from_' or 'to_')
MkEntry(key_prefix, type, location, resident_name, resident_id, effective_date) ==
    IF key_prefix = "from_"
    THEN [from_type |-> type, from_location |-> location, resident_name |-> resident_name,
          resident_id |-> resident_id, effective_date |-> effective_date]
    ELSE [to_type |-> type, to_location |-> location, resident_name |-> resident_name,
          resident_id |-> resident_id, effective_date |-> effective_date]
\* a subtotal dict
MkSubtotal(key_prefix, type, location, count) ==
    IF key_prefix = "from_"
    THEN [from_type |-> type, from_location |-> location, count |-> count, source |-> "detail"]
    ELSE [to_type |-> type, to_location |-> location, count |-> count, source |-> "detail"]

\* f"{last_name}, {first_name}" of the names cleaned once more
ResidentName(patient_info) ==
    clean_name_punctuation(patient_info.last_name) \o <<","," ">>
        \o clean_name_punctuation(patient_info.first_name)

\* the entry a patient_info gives under a type and location
PatientEntry(key_prefix, type, location, patient_info) ==
    MkEntry(key_prefix, type, location, ResidentName(patient_info),
            patient_info.resident_id, normalize_date(patient_info.date_str))

FirstWord(s) == IF SplitWS(s) = <<>> THEN <<>> ELSE SplitWS(s)[1]
\* ' '.join(words[:-n])
DropLastWords(s, n) ==
    LET words == SplitWS(s)
    IN IF Len(words) > n THEN Strip(Join(SubSeq(words, 1, Len(words) - n), <<" ">>)) ELSE <<>>
\* s[:s.index(p)].strip()
CutAt(s, p) == Strip(Slice(s, 0, Find(s, p)))

\* location_text of a line that carries the type and a patient
LocationText(original_before_comma, extracted_last_name) ==
    LET extracted_clean == Strip(LStripCh(extracted_last_name, {"&", " "}))
    IN IF Contains(original_before_comma, <<"&">>)
       THEN LET amp == RFind(original_before_comma, <<"&">>)
                name_part_after_amp ==
                    Strip(Slice(original_before_comma, amp + 1, Len(original_before_comma)))
            IN IF ~StartsWith(name_part_after_amp, FirstWord(extracted_clean))
               THEN DropLastWords(original_before_comma, 1)
               ELSE Strip(Slice(original_before_comma, 0, amp))
       ELSE IF EndsWith(original_before_comma, extracted_last_name)
       THEN Strip(Slice(original_before_comma, 0,
                        Len(original_before_comma) - Len(extracted_last_name)))
       ELSE LET last_name_first_word == FirstWord(extracted_clean)
                name_start_pos == RFind(original_before_comma, last_name_first_word)
            IN IF name_start_pos # -1
               THEN Strip(Slice(original_before_comma, 0, name_start_pos))
               ELSE DropLastWords(original_before_comma, 2)

location_suffixes == <<<<" ","-"," ","B","O","M"," ","s","u","b","m","i","t"," ","t","i","c","k","e","t"," ","t","o">>, <<" ","n","o","t"," ","i","n"," ","l","i","s","t"," ","-"," ","B","O","M"," ","s","u","b","m","i","t">>, <<" ","-"," ","M","E","R","C","Y">>>>
\* the suffix loop without break: every suffix found is cut, in list order
RECURSIVE CutSuffixes(_, _)
CutSuffixes(location_text, n) ==
    IF n > Len(location_suffixes) THEN location_text
    ELSE CutSuffixes(IF Contains(location_text, location_suffixes[n])
                     THEN CutAt(location_text, location_suffixes[n]) ELSE location_text, n + 1)
\* the suffix loop with break: only the first suffix found is cut
CutFirstSuffix(location_text) ==
    LET hits == {n \in DOMAIN location_suffixes : Contains(location_text, location_suffixes[n])}
    IN IF hits = {} THEN location_text ELSE CutAt(location_text, location_suffixes[SetMin(hits)])
\* the part before ' - ', or None when nothing is left
LocationName(location_text) ==
    LET name == IF Contains(location_text, <<" ","-"," ">>)
                THEN CutAt(location_text, <<" ","-"," ">>) ELSE Strip(location_text)
    IN IF name # <<>> THEN name ELSE None

\* total_pattern = ^Total:\s*(\d+) with re.IGNORECASE; count is int(group 1)
total_head == Cat(<<Lit(<<"t","o","t","a","l",":">>), Star(Cls(WS))>>)
RECURSIVE ToInt(_)
ToInt(digits) ==
    IF digits = <<>> THEN 0
    ELSE 10 * ToInt(SubSeq(digits, 1, Len(digits) - 1))
         + (CHOOSE n \in 0..9 : DigitSeq[n + 1] = digits[Len(digits)])
TotalSearch(line) ==
    LET l == StrLower(line)
        js == Ends(Cat(<<total_head, Plus(Cls(Digit))>>), l, 1)
    IN IF js = {} THEN [ok |-> FALSE]
       ELSE [ok |-> TRUE,
             total_count |-> ToInt(SubSeq(line, SetMax(Ends(total_head, l, 1)), SetMax(js) - 1))]

\* the locals of parse_section_with_python on entry to the while loop
PspStart(section_lines, section_name, key_prefix) ==
    [section_lines |-> section_lines, section_name |-> section_name, key_prefix |-> key_prefix,
     entries |-> <<>>, subtotals |-> <<>>, current_type |-> None, current_location |-> None,
     current_block_entries |-> <<>>, i |-> 0]

AddEntry(st, entry) ==
    [st EXCEPT !.entries = Append(@, entry), !.current_block_entries = Append(@, entry)]

\* a line that starts with a facility type: a new block
TypeLine(st, line, matched_type) ==
    LET remaining == Strip(Slice(line, Len(matched_type), Len(line)))
        patient_info == extract_patient_from_line(remaining)
    IN IF patient_info.ok
       THEN LET location == LocationName(CutSuffixes(
                    LocationText(patient_info.original_before_comma, patient_info.last_name), 1))
            IN AddEntry([st EXCEPT !.current_type = matched_type, !.current_location = location],
                        PatientEntry(st.key_prefix, matched_type, location, patient_info))
       ELSE [st EXCEPT !.current_type = matched_type,
                       !.current_location = LocationName(CutFirstSuffix(remaining))]

\* ContinuationLine with the rows outside a block dropped
ContinuationLineInBlock(st, line) ==
    LET patient_info == extract_patient_from_line(line)
    IN IF patient_info.ok /\ st.current_type # None
       THEN AddEntry(st, PatientEntry(st.key_prefix, st.current_type, st.current_location,
                                      patient_info))
       ELSE st
\* a line without a type: a continuation row or a standalone entry
ContinuationLine(st, line) ==
    LET patient_info == extract_patient_from_line(line)
    IN IF patient_info.ok
       THEN AddEntry(st, PatientEntry(st.key_prefix,
                                      IF st.current_type # None THEN st.current_type ELSE FT_Unknown,
                                      st.current_location, patient_info))
       ELSE st

\* TotalLine with the block cut down to the stated count
TotalLineCorrecting(st, line) ==
    LET total_match == TotalSearch(line)
        excess == IF total_match.ok /\ Len(st.current_block_entries) > total_match.total_count
                  THEN Len(st.current_block_entries) - total_match.total_count ELSE 0
    IN [st EXCEPT !.entries = SubSeq(@, 1, Len(@) - excess),
                  !.current_type = IF total_match.ok THEN None ELSE @,
                  !.current_location = IF total_match.ok THEN None ELSE @,
                  !.current_block_entries = IF total_match.ok THEN <<>> ELSE @]
\* TotalLine that records the subtotal and keeps the block state
TotalLineNoReset(st, line) ==
    LET total_match == TotalSearch(line)
    IN IF total_match.ok /\ st.current_type # None
       THEN [st EXCEPT !.subtotals = Append(@, MkSubtotal(st.key_prefix, st.current_type,
                                                          st.current_location, total_match.total_count))]
       ELSE st
\* the check for a Total line: subtotal for the current block, then reset
TotalLine(st, line) ==
    LET total_match == TotalSearch(line)
    IN IF total_match.ok
       THEN [st EXCEPT
               !.subtotals = IF st.current_type # None
                             THEN Append(@, MkSubtotal(st.key_prefix, st.current_type,
                                                       st.current_location, total_match.total_count))
                             ELSE @,
               !.current_type = None, !.current_location = None,
               !.current_block_entries = <<>>]
       ELSE st

IsSkippedLine(line, section_name) ==
    \/ line = <<>>
    \/ line = section_name
    \/ Contains(line, <<"T","y","p","e">>) /\ Contains(line, <<"L","o","c","a","t","i","o","n">>) /\ Contains(line, <<"R","e","s","i","d","e","n","t">>)

\* one iteration of the while loop over section_lines
PspIter(st) ==
    LET line == Strip(st.section_lines[st.i + 1])
        next == [st EXCEPT !.i = @ + 1]
        unknown_info == IF StartsWith(line, <<"U","n","k","n","o","w","n"," ">>)
                        THEN extract_patient_from_line(Strip(Slice(line, 8, Len(line))))
                        ELSE [ok |-> FALSE]
        matched_type == MatchedType(line)
    IN IF IsSkippedLine(line, st.section_name) THEN next
       ELSE IF unknown_info.ok
       THEN AddEntry([next EXCEPT !.current_type = FT_Unknown, !.current_location = None],
                     PatientEntry(st.key_prefix, FT_Unknown, None, unknown_info))
       ELSE IF matched_type # None
       THEN TotalLine(TypeLine(next, line, matched_type), line)
       ELSE TotalLine(ContinuationLine(next, line), line)

RECURSIVE PspLoop(_)
PspLoop(st) == IF st.i < Len(st.section_lines) THEN PspLoop(PspIter(st)) ELSE st

(***************************************************************************)
(* parse_with_python: section boundaries and the combined result           *)
(***************************************************************************)
L_Admissions == <<"A","d","m","i","s","s","i","o","n","s">>
L_Discharges == <<"D","i","s","c","h","a","r","g","e","s">>
\* None for a line index
NoIndex == -1
\* None for a section total
NoTotal == -1

\* index (0-based) of the first line whose stripped content is the marker
SectionStart(lines, marker) ==
    LET hits == {n \in DOMAIN lines : Strip(lines[n]) = marker}
    IN IF hits = {} THEN NoIndex ELSE SetMin(hits) - 1
admissions_start(lines) == SectionStart(lines, L_Admissions)
discharges_start(lines) == SectionStart(lines, L_Discharges)

\* lines[section_start:section_end], or lines[section_start:] when section_end is None
SectionLines(lines, section_start, section_end) ==
    IF section_end # NoIndex THEN Slice(lines, section_start, section_end)
    ELSE Slice(lines, section_start, Len(lines))
\* AdmissionsLines that run to the end of the text
AdmissionsLinesToEnd(lines) == SectionLines(lines, admissions_start(lines), NoIndex)
AdmissionsLines(lines) == SectionLines(lines, admissions_start(lines), discharges_start(lines))
DischargesLines(lines) == SectionLines(lines, discharges_start(lines), NoIndex)

\* parse_section_with_python as a whole
parse_section_with_python(lines, section_start, section_end, section_name, key_prefix) ==
    IF section_start = NoIndex
    THEN [name |-> section_name, entries |-> <<>>, subtotals |-> <<>>, total |-> NoTotal]
    ELSE LET st == PspLoop(PspStart(SectionLines(lines, section_start, section_end),
                                    section_name, key_prefix))
         IN [name |-> section_name, entries |-> st.entries, subtotals |-> st.subtotals,
             total |-> Len(st.entries)]

\* the dict parse_with_python returns (report_metadata left out)
BuildResult(adm, dis) ==
    [sections |-> <<adm, dis>>,
     grand_totals |-> [admissions |-> adm.total, discharges |-> dis.total],
     validation |-> [notes |-> <<>>, warnings |-> <<>>]]


(***************************************************************************)
(* split_text_by_sections                                                  *)
(***************************************************************************)
\* the three texts returned, each as its lines
split_text_by_sections(lines) ==
    LET a == admissions_start(lines)
        d == discharges_start(lines)
        \* `lines[:admissions_start] if admissions_start else []`: None and 0 are falsy
        metadata_lines == IF a # NoIndex /\ a # 0 THEN Slice(lines, 0, a) ELSE <<>>
    IN [metadata_text |-> AsText(metadata_lines),
        admissions_text |-> IF a # NoIndex /\ d # NoIndex THEN AsText(Slice(lines, a, d))
                            ELSE IF a # NoIndex THEN AsText(Slice(lines, a, Len(lines)))
                            ELSE << <<>> >>,
        discharges_text |-> IF d # NoIndex THEN AsText(Slice(lines, d, Len(lines)))
                            ELSE << <<>> >>]
(***************************************************************************)
(* str comparison, sorted() and list.sort()                                *)
(***************************************************************************)
\* the printable characters in code point order (the grave accent left out)
CharOrder == <<" ","!","\"","#","$","%","&","'","(",")","*","+",",","-",".","/","0","1","2","3","4","5","6","7","8","9",":",";","<","=",">","?","@","A","B","C","D","E","F","G","H","I","J","K","L","M","N","O","P","Q","R","S","T","U","V","W","X","Y","Z","[","\\","]","^","_","a","b","c","d","e","f","g","h","i","j","k","l","m","n","o","p","q","r","s","t","u","v","w","x","y","z","{","|","}","~">>
\* ord(c), up to the order
OrdTable == [c \in Range(CharOrder) |-> CHOOSE n \in DOMAIN CharOrder : CharOrder[n] = c]
Ord(c) == OrdTable[c]
\* a < b for two str
RECURSIVE StrLess(_, _)
StrLess(a, b) ==
    IF b = <<>> THEN FALSE
    ELSE IF a = <<>> THEN TRUE
    ELSE IF Ord(Head(a)) < Ord(Head(b)) THEN TRUE
    ELSE IF Ord(Head(a)) > Ord(Head(b)) THEN FALSE
    ELSE StrLess(Tail(a), Tail(b))

\* sorted(seq, key=...), which is stable; before is the set of the pairs of
\* positions <<m, n>> where the key of seq[m] is less than the key of seq[n]
StableSort(seq, before) ==
    LET Rank(n) == 1 + Cardinality({m \in DOMAIN seq :
                        <<m, n>> \in before \/ (<<n, m>> \notin before /\ m < n)})
    IN [r \in DOMAIN seq |-> seq[CHOOSE n \in DOMAIN seq : Rank(n) = r]]

(***************************************************************************)
(* parse_date: datetime.strptime(date_str, '%Y-%m-%d'), None on ValueError *)
(***************************************************************************)
NonZeroDigit == Digit \ {"0"}
\* the patterns strptime uses for %Y, %m and %d
strptime_Y == Rep(Cls(Digit), 4, 4)
strptime_m == Alt(<<Cat(<<Lit(<<"1">>), Cls({"0", "1", "2"})>>),
                    Cat(<<Lit(<<"0">>), Cls(NonZeroDigit)>>), Cls(NonZeroDigit)>>)
strptime_d == Alt(<<Cat(<<Lit(<<"3">>), Cls({"0", "1"})>>),
                    Cat(<<Cls({"1", "2"}), Cls(Digit)>>),
                    Cat(<<Lit(<<"0">>), Cls(NonZeroDigit)>>), Cls(NonZeroDigit),
                    Cat(<<Lit(<<" ">>), Cls(NonZeroDigit)>>)>>)
strptime_format == <<strptime_Y, Lit(<<"-">>), strptime_m, Lit(<<"-">>), strptime_d>>

IsLeap(y) == (y % 4 = 0 /\ y % 100 # 0) \/ y % 400 = 0
DaysInMonth(y, m) ==
    IF m = 2 THEN (IF IsLeap(y) THEN 29 ELSE 28)
    ELSE IF m \in {4, 6, 9, 11} THEN 30 ELSE 31

\* a datetime is the number 10000 * year + 100 * month + day, which orders as
\* datetime does; NoDate is None
NoDate == 0
strptime(date_str) ==
    LET ms == {sp \in Splits(strptime_format, date_str, 1) : sp[Len(sp)] = Len(date_str) + 1}
    IN IF ms = {} THEN NoDate
       ELSE LET sp == CHOOSE m \in ms : TRUE
                y == ToInt(SubSeq(date_str, sp[1], sp[2] - 1))
                m == ToInt(SubSeq(date_str, sp[3], sp[4] - 1))
                d == ToInt(LStripCh(SubSeq(date_str, sp[5], sp[6] - 1), {" "}))
            IN IF y >= 1 /\ d <= DaysInMonth(y, m) THEN 10000 * y + 100 * m + d ELSE NoDate

\* the effective dates of the reports the cycles are checked on
Date_Jan01 == <<"2","0","2","5","-","0","1","-","0","1">>
Date_Jan05 == <<"2","0","2","5","-","0","1","-","0","5">>
Date_Mar01 == <<"2","0","2","5","-","0","3","-","0","1">>
\* what normalize_date makes of 02/30/2025: not a date
Date_Feb30 == <<"2","0","2","5","-","0","2","-","3","0">>
EntryDates == {Date_Jan01, Date_Jan05, Date_Mar01, Date_Feb30}
\* strptime of the dates of the reports, evaluated once
ParsedEntryDates == [date_str \in EntryDates |-> strptime(date_str)]
parse_date(date_str) ==
    IF date_str \in EntryDates THEN ParsedEntryDates[date_str] ELSE strptime(date_str)
\* datetime.min
DatetimeMin == 10101

(***************************************************************************)
(* parse_name, create_patient_grouped_json and the two name passes         *)
(***************************************************************************)
\* parts = [part.strip() for part in full_name.split(',')]
StripAll(parts) == [n \in DOMAIN parts |-> Strip(parts[n])]
\* the pair (first_name, last_name) as a record
parse_name(full_name) ==
    IF full_name = <<>> THEN [first_name |-> <<>>, last_name |-> <<>>]
    ELSE LET parts == StripAll(SplitOn(StripCh(full_name, {"\""}), ","))
         IN IF Len(parts) >= 2
            THEN [first_name |-> clean_name_punctuation(parts[2]),
                  last_name |-> clean_name_punctuation(parts[1])]
            ELSE [first_name |-> <<>>, last_name |-> clean_name_punctuation(parts[1])]

\* the entries of the section of a name
SectionEntries(data, name) ==
    LET named == SelectSeq(data.sections, LAMBDA section : section.name = name)
    IN IF named = <<>> THEN <<>> ELSE named[1].entries

\* admission_entry and discharge_entry: a new dict per entry. Two of these
\* dicts can be equal and still be two objects, so each carries in src the
\* position of its entry in the section, which stands for the object's identity
AdmissionEntry(entry, n) ==
    [effective_date |-> entry.effective_date, from_type |-> entry.from_type,
     from_location |-> entry.from_location, src |-> n]
DischargeEntry(entry, n) ==
    [effective_date |-> entry.effective_date, to_type |-> entry.to_type,
     to_location |-> entry.to_location, src |-> n]

\* PositionsOf that keeps one entry per effective_date
PositionsOfDistinctDates(entries, resident_id) ==
    LET ns == {n \in DOMAIN entries :
                  /\ entries[n].resident_id = resident_id
                  /\ \A m \in 1..(n - 1) :
                         entries[m].resident_id = resident_id
                             => entries[m].effective_date # entries[n].effective_date}
    IN [r \in 1..Cardinality(ns) |->
           CHOOSE n \in ns : Cardinality({m \in ns : m < n}) = r - 1]
\* the positions, in order, of the entries of a resident_id
PositionsOf(entries, resident_id) ==
    LET ns == {n \in DOMAIN entries : entries[n].resident_id = resident_id}
    IN [r \in 1..Cardinality(ns) |->
           CHOOSE n \in ns : Cardinality({m \in ns : m < n}) = r - 1]
\* key=lambda x: x['effective_date']
DateStrLess(x, y) == StrLess(x.effective_date, y.effective_date)
ByDateStr(seq) == {p \in (DOMAIN seq) \X (DOMAIN seq) : DateStrLess(seq[p[1]], seq[p[2]])}
\* list.sort(key=lambda x: x['effective_date'])
SortByDateStr(seq) == StableSort(seq, ByDateStr(seq))

PatientIds(data) ==
    {entry.resident_id : entry \in Range(SectionEntries(data, L_Admissions))
                                     \cup Range(SectionEntries(data, L_Discharges))}

\* the dict of a resident_id once both loops have run and the lists are sorted
GroupedPatient(data, resident_id) ==
    LET adm == SectionEntries(data, L_Admissions)
        dis == SectionEntries(data, L_Discharges)
        pa == PositionsOf(adm, resident_id)
        pd == PositionsOf(dis, resident_id)
        \* the names are overwritten by each entry: the last one stays
        last == IF pd # <<>> THEN dis[pd[Len(pd)]] ELSE adm[pa[Len(pa)]]
        names == parse_name(last.resident_name)
    IN [resident_id |-> resident_id,
        first_name |-> names.first_name,
        last_name |-> names.last_name,
        full_name |-> last.resident_name,
        admissions |-> SortByDateStr([r \in DOMAIN pa |-> AdmissionEntry(adm[pa[r]], pa[r])]),
        discharges |-> SortByDateStr([r \in DOMAIN pd |-> DischargeEntry(dis[pd[r]], pd[r])]),
        total_admissions |-> Len(pa),
        total_discharges |-> Len(pd)]

\* metadata, report_info and summary left out
create_patient_grouped_json(data) ==
    [patients |-> [resident_id \in PatientIds(data) |-> GroupedPatient(data, resident_id)]]

\* the keys of the patients dict in its order: sorted by resident_id
PatientKeys(data) ==
    LET ids == DOMAIN data.patients
    IN [r \in 1..Cardinality(ids) |->
           CHOOSE id \in ids : Cardinality({x \in ids : StrLess(x, id)}) = r - 1]

\* "last, first", or the one that is not empty
FullName(first_name, last_name) ==
    IF first_name # <<>> /\ last_name # <<>> THEN last_name \o <<","," ">> \o first_name
    ELSE IF last_name # <<>> THEN last_name
    ELSE first_name

CleanPatient(patient) ==
    LET original_first == Strip(patient.first_name)
        original_last == Strip(patient.last_name)
        cleaned_first == clean_name_punctuation(original_first)
        cleaned_last == clean_name_punctuation(original_last)
    IN IF cleaned_first # original_first \/ cleaned_last # original_last
       THEN [patient EXCEPT !.first_name = cleaned_first, !.last_name = cleaned_last,
                            !.full_name = FullName(cleaned_first, cleaned_last)]
       ELSE patient
clean_punctuation_from_names(data) ==
    [data EXCEPT !.patients = [id \in DOMAIN data.patients |-> CleanPatient(data.patients[id])]]

\* [part.strip() for part in last_name.split(' ') if part.strip()]
SpaceParts(last_name) ==
    SelectSeq(StripAll(SplitOn(last_name, " ")), LAMBDA part : part # <<>>)
\* FixPatient that sets the two names and leaves full_name as it is
FixPatientKeepFullName(patient) ==
    LET first_name == clean_name_punctuation(Strip(patient.first_name))
        last_name == clean_name_punctuation(Strip(patient.last_name))
        parts == SpaceParts(last_name)
        cleaned_parts == [n \in DOMAIN parts |-> clean_name_punctuation(parts[n])]
    IN IF first_name = <<>> /\ last_name # <<>> /\ " " \in Range(last_name)
       THEN IF Len(parts) >= 2
            THEN [patient EXCEPT !.first_name = cleaned_parts[1],
                                 !.last_name = Join(Tail(cleaned_parts), <<" ">>)]
            ELSE patient
       ELSE [patient EXCEPT !.first_name = first_name, !.last_name = last_name]
FixPatient(patient) ==
    LET first_name == clean_name_punctuation(Strip(patient.first_name))
        last_name == clean_name_punctuation(Strip(patient.last_name))
        parts == SpaceParts(last_name)
        cleaned_parts == [n \in DOMAIN parts |-> clean_name_punctuation(parts[n])]
        rest == Join(Tail(cleaned_parts), <<" ">>)
    IN IF first_name = <<>> /\ last_name # <<>> /\ " " \in Range(last_name)
       THEN IF Len(parts) >= 2
            THEN [patient EXCEPT !.first_name = cleaned_parts[1], !.last_name = rest,
                                 !.full_name = rest \o <<","," ">> \o cleaned_parts[1]]
            ELSE patient
       ELSE [patient EXCEPT !.first_name = first_name, !.last_name = last_name,
                            !.full_name = FullName(first_name, last_name)]
fix_empty_first_names(data) ==
    [data EXCEPT !.patients = [id \in DOMAIN data.patients |-> FixPatient(data.patients[id])]]

(***************************************************************************)
(* find_subsequent_cycles                                                  *)
(***************************************************************************)
\* key=lambda x: parse_date(x.get('effective_date', '')) or datetime.min
SortKey(x) ==
    IF parse_date(x.effective_date) = NoDate THEN DatetimeMin ELSE parse_date(x.effective_date)
SortKeyLess(x, y) == SortKey(x) < SortKey(y)
BySortKey(seq) == {p \in (DOMAIN seq) \X (DOMAIN seq) : SortKeyLess(seq[p[1]], seq[p[2]])}

\* the locals before the loop
FscStart(admissions, discharges) ==
    [sorted_admissions |-> StableSort(admissions, BySortKey(admissions)),
     sorted_discharges |-> StableSort(discharges, BySortKey(discharges)),
     admission_index |-> 0,
     discharge_index |-> 0,
     cycles |-> <<>>]

\* the early return is not taken and the condition of the while holds
FscRunning(st) ==
    /\ st.sorted_admissions # <<>>
    /\ st.sorted_discharges # <<>>
    /\ st.admission_index < Len(st.sorted_admissions)
    /\ st.discharge_index < Len(st.sorted_discharges)

\* FscIter with the test `discharge_date >= admission_date` left out: any two
\* parseable dates make a cycle
FscIterUnordered(st) ==
    LET admission == st.sorted_admissions[st.admission_index + 1]
        discharge == st.sorted_discharges[st.discharge_index + 1]
        admission_date == parse_date(admission.effective_date)
        discharge_date == parse_date(discharge.effective_date)
    IN IF admission_date # NoDate /\ discharge_date # NoDate
       THEN [st EXCEPT !.cycles = Append(@, <<admission, discharge>>),
                       !.admission_index = @ + 1, !.discharge_index = @ + 1]
       ELSE [st EXCEPT !.admission_index = IF admission_date = NoDate THEN @ + 1 ELSE @,
                       !.discharge_index = IF discharge_date = NoDate THEN @ + 1 ELSE @]
\* FscIter with `discharge_index += 1` left out after a pair is appended
FscIterReuse(st) ==
    LET admission == st.sorted_admissions[st.admission_index + 1]
        discharge == st.sorted_discharges[st.discharge_index + 1]
        admission_date == parse_date(admission.effective_date)
        discharge_date == parse_date(discharge.effective_date)
    IN IF admission_date # NoDate /\ discharge_date # NoDate /\ discharge_date >= admission_date
       THEN [st EXCEPT !.cycles = Append(@, <<admission, discharge>>),
                       !.admission_index = @ + 1]
       ELSE IF admission_date # NoDate /\ discharge_date # NoDate
       THEN [st EXCEPT !.discharge_index = @ + 1]
       ELSE [st EXCEPT !.admission_index = IF admission_date = NoDate THEN @ + 1 ELSE @,
                       !.discharge_index = IF discharge_date = NoDate THEN @ + 1 ELSE @]
\* FscIter with `if not discharge_date: discharge_index += 1` left out
FscIterKeepDischarge(st) ==
    LET admission == st.sorted_admissions[st.admission_index + 1]
        discharge == st.sorted_discharges[st.discharge_index + 1]
        admission_date == parse_date(admission.effective_date)
        discharge_date == parse_date(discharge.effective_date)
    IN IF admission_date # NoDate /\ discharge_date # NoDate /\ discharge_date >= admission_date
       THEN [st EXCEPT !.cycles = Append(@, <<admission, discharge>>),
                       !.admission_index = @ + 1, !.discharge_index = @ + 1]
       ELSE IF admission_date # NoDate /\ discharge_date # NoDate
       THEN [st EXCEPT !.discharge_index = @ + 1]
       ELSE [st EXCEPT !.admission_index = IF admission_date = NoDate THEN @ + 1 ELSE @]
\* one iteration of the while loop
FscIter(st) ==
    LET admission == st.sorted_admissions[st.admission_index + 1]
        discharge == st.sorted_discharges[st.discharge_index + 1]
        admission_date == parse_date(admission.effective_date)
        discharge_date == parse_date(discharge.effective_date)
    IN IF admission_date # NoDate /\ discharge_date # NoDate /\ discharge_date >= admission_date
       THEN [st EXCEPT !.cycles = Append(@, <<admission, discharge>>),
                       !.admission_index = @ + 1, !.discharge_index = @ + 1]
       ELSE IF admission_date # NoDate /\ discharge_date # NoDate
       THEN [st EXCEPT !.discharge_index = @ + 1]
       ELSE [st EXCEPT !.admission_index = IF admission_date = NoDate THEN @ + 1 ELSE @,
                       !.discharge_index = IF discharge_date = NoDate THEN @ + 1 ELSE @]

RECURSIVE FscLoop(_)
FscLoop(st) == IF FscRunning(st) THEN FscLoop(FscIter(st)) ELSE st
\* the list of (admission, discharge) pairs
find_subsequent_cycles(admissions, discharges) ==
    FscLoop(FscStart(admissions, discharges)).cycles

(***************************************************************************)
(* create_cycles_csv                                                       *)
(***************************************************************************)
\* a row that has no admission, or no discharge, has no source object for it
NoSrc == 0
\* the rows: the nine columns, and the identities of the dicts a row was made of
CycleRow(first_name, last_name, patient_id, admission, discharge) ==
    [first_name |-> first_name, last_name |-> last_name, resident_id |-> patient_id,
     admission_date |-> admission.effective_date,
     discharge_date |-> discharge.effective_date,
     from_location |-> admission.from_location, to_location |-> discharge.to_location,
     from_type |-> admission.from_type, to_type |-> discharge.to_type,
     admission_src |-> admission.src, discharge_src |-> discharge.src]
AdmissionOnlyRow(first_name, last_name, patient_id, admission) ==
    [first_name |-> first_name, last_name |-> last_name, resident_id |-> patient_id,
     admission_date |-> admission.effective_date, discharge_date |-> <<>>,
     from_location |-> admission.from_location, to_location |-> <<>>,
     from_type |-> admission.from_type, to_type |-> <<>>,
     admission_src |-> admission.src, discharge_src |-> NoSrc]
DischargeOnlyRow(first_name, last_name, patient_id, discharge) ==
    [first_name |-> first_name, last_name |-> last_name, resident_id |-> patient_id,
     admission_date |-> <<>>, discharge_date |-> discharge.effective_date,
     from_location |-> <<>>, to_location |-> discharge.to_location,
     from_type |-> <<>>, to_type |-> discharge.to_type,
     admission_src |-> NoSrc, discharge_src |-> discharge.src]

\* the rows appended for a patient, given its cycles
PatientRows(patient_id, patient, cycles) ==
    LET first_name == patient.first_name
        last_name == patient.last_name
        admissions == patient.admissions
        discharges == patient.discharges
    IN IF cycles # <<>>
       THEN [n \in DOMAIN cycles |->
                CycleRow(first_name, last_name, patient_id, cycles[n][1], cycles[n][2])]
       ELSE IF admissions # <<>> /\ discharges = <<>>
       THEN [n \in DOMAIN admissions |->
                AdmissionOnlyRow(first_name, last_name, patient_id, admissions[n])]
       ELSE IF discharges # <<>> /\ admissions = <<>>
       THEN [n \in DOMAIN discharges |->
                DischargeOnlyRow(first_name, last_name, patient_id, discharges[n])]
       ELSE <<>>

\* key=lambda x: (x['last_name'], x['first_name'], x['admission_date'] or '9999-12-31')
NoAdmissionKey == <<"9","9","9","9","-","1","2","-","3","1">>
\* the key without the sentinel: an empty admission_date sorts first
AdmissionKeyEmptyFirst(x) == x.admission_date
AdmissionKey(x) == IF x.admission_date = <<>> THEN NoAdmissionKey ELSE x.admission_date
RowLess(x, y) ==
    IF x.last_name # y.last_name THEN StrLess(x.last_name, y.last_name)
    ELSE IF x.first_name # y.first_name THEN StrLess(x.first_name, y.first_name)
    ELSE StrLess(AdmissionKey(x), AdmissionKey(y))

ByRowKey(seq) == {p \in (DOMAIN seq) \X (DOMAIN seq) : RowLess(seq[p[1]], seq[p[2]])}
\* cycles_data.sort(key=...)
SortedRows(rows) == StableSort(rows, ByRowKey(rows))

RECURSIVE AllRows(_, _)
\* the rows of the patients from position n of the dict on, before the sort
AllRows(data, n) ==
    IF n > Len(PatientKeys(data)) THEN <<>>
    ELSE LET patient_id == PatientKeys(data)[n]
             patient == data.patients[patient_id]
         IN PatientRows(patient_id, patient,
                        find_subsequent_cycles(patient.admissions, patient.discharges))
            \o AllRows(data, n + 1)
\* cycles_data as it is written to the CSV
create_cycles_csv(data) == SortedRows(AllRows(data, 1))

(***************************************************************************)
(* Input lines                                                             *)
(***************************************************************************)
L_Empty == <<>>
L_Page == <<"P","a","g","e"," ","1"," ","o","f"," ","2">>
L_ReportBy == <<"R","e","p","o","r","t"," ","b","y",":"," ","T","o","/","F","r","o","m"," ","T","y","p","e">>
L_ToFromShort == <<"T","o","/","F","r","o","m"," ","T","y","p","e",":">>
L_ToFromPadded == <<"T","o","/","F","r","o","m"," ","T","y","p","e",":"," "," "," "," "," "," "," "," "," "," "," "," "," "," "," "," "," "," "," "," ">>
L_ToFromType == <<"T","o","/","F","r","o","m"," ","T","y","p","e",":"," ","B","o","a","r","d"," ","a","n","d"," ","c","a","r","e",","," ","O","t","h","e","r">>
L_TypeList == <<"N","u","r","s","i","n","g"," ","h","o","m","e",","," ","C","o","u","r","t","/","L","a","w"," ","E","n","f","o","r","c","e","m","e","n","t">>
L_Row == <<"H","e","r","n","a","n","d","e","z",","," ","M","a","r","i","a"," ","(","2","0","2","7","8","7",")"," ","0","8","/","2","1","/","2","0","2","5">>
L_AcuteBlodgett == <<"A","c","u","t","e"," ","c","a","r","e"," ","h","o","s","p","i","t","a","l"," ","B","l","o","d","g","e","t","t"," ","B","r","o","w","n",","," ","L","a","w","r","e","n","c","e"," ","(","2","0","2","7","2","0",")"," ","0","7","/","2","2","/","2","0","2","5">>
L_NursingMeadows == <<"N","u","r","s","i","n","g"," ","h","o","m","e"," ","M","E","A","D","O","W","S">>
L_UnknownWorkman == <<"U","n","k","n","o","w","n"," ","W","o","r","k","m","a","n",","," ","R","o","d","n","e","y"," ","(","2","0","2","7","4","5",")"," ","0","8","/","2","0","/","2","0","2","5">>
L_OtherBarclay == <<"O","t","h","e","r"," ","H","e","a","l","t","h"," ","F","a","c","i","l","i","t","y"," ","B","a","r","c","l","a","y",","," ","P","a","u","l"," ","(","2","0","2","6","0","5",")"," ","0","7","/","0","9","/","2","0","2","5">>
L_McLaren == <<"P","r","i","v","a","t","e"," ","h","o","m","e","/","a","p","t","."," ","w","i","t","h"," ","h","o","m","e"," ","h","e","a","l","t","h"," ","s","e","r","v","i","c","e","s"," ","M","C","L","A","R","E","N"," ","V","I","S","I","T","I","N","G"," ","N","U","R","S","E"," ","&"," ","Z","i","l","s","k","a",","," ","P","a","t","r","i","c","i","a"," ","(","2","0","2","7","0","0",")"," ","0","8","/","0","1","/","2","0","2","5">>
L_Total1 == <<"T","o","t","a","l",":"," ","1">>
L_Total2 == <<"T","o","t","a","l",":"," ","2">>
L_Total7 == <<"T","o","t","a","l",":"," ","7">>
L_Total9 == <<"T","o","t","a","l",":"," ","9">>

\* resident lines with and without an id, a date and a name
L_Id4 == <<"H","e","r","n","a","n","d","e","z",","," ","M","a","r","i","a"," ","(","2","0","2","7",")"," ","0","8","/","2","1","/","2","0","2","5">>
L_Id10 == <<"H","e","r","n","a","n","d","e","z",","," ","M","a","r","i","a"," ","(","M","G","B","4","0","4","4","0","0","1",")"," ","8","/","1","/","2","0","2","5">>
L_Id3 == <<"H","e","r","n","a","n","d","e","z",","," ","M","a","r","i","a"," ","(","7","8","7",")"," ","0","8","/","2","1","/","2","0","2","5">>
L_Id11 == <<"H","e","r","n","a","n","d","e","z",","," ","M","a","r","i","a"," ","(","M","G","B","4","0","4","4","0","0","1","2",")"," ","0","8","/","2","1","/","2","0","2","5">>
L_IdLower == <<"H","e","r","n","a","n","d","e","z",","," ","M","a","r","i","a"," ","(","m","g","b","4","0","4",")"," ","0","8","/","2","1","/","2","0","2","5">>
L_NoDate == <<"H","e","r","n","a","n","d","e","z",","," ","M","a","r","i","a"," ","(","2","0","2","7","8","7",")">>
L_ShortYear == <<"H","e","r","n","a","n","d","e","z",","," ","M","a","r","i","a"," ","(","2","0","2","7","8","7",")"," ","0","8","/","2","1","/","2","5">>
L_NoComma == <<"H","e","r","n","a","n","d","e","z"," ","M","a","r","i","a"," ","(","2","0","2","7","8","7",")"," ","0","8","/","2","1","/","2","0","2","5">>
L_LowerFirst == <<"H","e","r","n","a","n","d","e","z",","," ","m","a","r","i","a"," ","(","2","0","2","7","8","7",")"," ","0","8","/","2","1","/","2","0","2","5">>
L_TypeNoName == <<"N","u","r","s","i","n","g"," ","h","o","m","e"," ","M","E","A","D","O","W","S"," ","(","2","0","2","7","8","7",")"," ","0","8","/","2","1","/","2","0","2","5">>

L_DischargesPadded == <<" "," ","D","i","s","c","h","a","r","g","e","s"," ">>
L_AdmissionsLabel == <<"A","d","m","i","s","s","i","o","n","s",":"," ","3">>

SeqsUpTo(S, n) == UNION {[1..m -> S] : m \in 0..n}

\* the lines a text handed to remove_page_headers is made of
HeaderLines == {L_Empty, L_Page, L_ReportBy, L_ToFromType, L_TypeList, L_Row}
MaxLines == 4
EnumeratedHeaderTexts == SeqsUpTo(HeaderLines, MaxLines) \ {<<>>}
\* a short header line, long repeats of it (one long by its trailing blanks) and
\* short lines around them
ShortHeadLines == {L_Empty, L_ToFromShort, L_ToFromPadded, L_ToFromType, L_Page}
ShortHeadTexts == SeqsUpTo(ShortHeadLines, 4) \ {<<>>}
Texts == EnumeratedHeaderTexts \cup ShortHeadTexts

\* the body lines of the sections handed to parse_with_python
ParseLines == {L_AcuteBlodgett, L_Row, L_NursingMeadows, L_Page, L_TypeList, L_Total1, L_Total2}
MaxBodyLines == 3
Bodies == SeqsUpTo(ParseLines, MaxBodyLines)
\* one marker only, or both with the body split between the sections
EnumeratedTexts ==
    {<<L_Admissions>> \o b : b \in Bodies}
    \cup {<<L_Discharges>> \o b : b \in Bodies}
    \cup UNION {{<<L_Admissions>> \o SubSeq(b, 1, k) \o <<L_Discharges>> \o SubSeq(b, k + 1, Len(b))
                 : k \in 0..Len(b)} : b \in Bodies}
\* the worked lines of the specification, alone and inside a block
ContextLines == {L_Row, L_NursingMeadows, L_Total1}
WorkedLines == {L_UnknownWorkman, L_OtherBarclay, L_McLaren}
WorkedTexts ==
    {<<m>> \o pre \o <<x>> \o post : m \in {L_Admissions, L_Discharges}, x \in WorkedLines,
                                     pre \in SeqsUpTo(ContextLines, 1),
                                     post \in SeqsUpTo(ContextLines, 1)}
\* a block of 9 resident lines closed by a Total line
NineRows == <<L_AcuteBlodgett, L_Row, L_Row, L_Row, L_Row, L_Row, L_Row, L_Row, L_Row>>
NineRowTexts == {<<L_Admissions>> \o NineRows \o <<t>> : t \in {L_Total9, L_Total7}}
\* sections of two resident lines, each with or without an id, a date and a name
IdLines == {L_Row, L_Id4, L_Id10, L_Id3, L_Id11, L_IdLower, L_NoDate, L_ShortYear, L_NoComma,
            L_LowerFirst, L_TypeNoName}
IdTexts == {<<m, a, b>> : m \in {L_Admissions, L_Discharges}, a \in IdLines, b \in IdLines}
\* texts with the markers anywhere: before and after rows, in either order,
\* repeated, with blanks around them, and lines that only start like a marker
MarkerLines == {L_Admissions, L_Discharges, L_DischargesPadded, L_AdmissionsLabel, L_Row}
MarkerTexts == SeqsUpTo(MarkerLines, 4) \ {<<>>}
ParseTexts == EnumeratedTexts \cup WorkedTexts \cup NineRowTexts \cup IdTexts \cup MarkerTexts

(***************************************************************************)
(* SpecHeaders: remove_page_headers run on a text, then on its own result  *)
(***************************************************************************)
varsHeaders == <<text, rph, result1, result2>>
varsParse == <<cleaned_text, metadata_text, psp, admissions_data, discharges_data, structured_data>>
varsCycles == <<patient_grouped_data, patient_index, fsc, cycles_data>>
varsSingle == <<psf, pdf_result>>
varsBatch == <<pf, batch_summary>>
varsUpload == <<job_status, up, background_tasks, response>>
varsOuter == <<varsSingle, varsBatch, varsUpload>>
vars == <<pc, varsHeaders, varsParse, varsCycles, varsOuter>>

IdleSingle == psf = <<>> /\ pdf_result = <<>>
IdleBatch == pf = <<>> /\ batch_summary = <<>>
IdleUpload == job_status = <<>> /\ up = <<>> /\ background_tasks = <<>> /\ response = <<>>
IdleOuter == IdleSingle /\ IdleBatch /\ IdleUpload
IdleHeaders == text = <<>> /\ rph = <<>> /\ result1 = <<>> /\ result2 = <<>>
IdleParse ==
    /\ cleaned_text = <<>>
    /\ metadata_text = <<>>
    /\ psp = <<>>
    /\ admissions_data = <<>>
    /\ discharges_data = <<>>
    /\ structured_data = <<>>

IdleCycles ==
    /\ patient_grouped_data = <<>>
    /\ patient_index = 0
    /\ fsc = <<>>
    /\ cycles_data = <<>>

InitHeaders ==
    /\ pc = "pass1"
    /\ text \in Texts
    /\ rph = RphStart(text)
    /\ result1 = <<>>
    /\ result2 = <<>>
    /\ IdleParse
    /\ IdleCycles
    /\ IdleOuter

\* `if not text: return ""`
HeaderEmptyText ==
    /\ pc \in {"pass1", "pass2"}
    /\ IsEmptyText(text)
    /\ IF pc = "pass1"
       THEN /\ result1' = << <<>> >>
            /\ text' = << <<>> >>
            /\ rph' = RphStart(<< <<>> >>)
            /\ pc' = "pass2"
            /\ UNCHANGED result2
       ELSE /\ result2' = << <<>> >>
            /\ pc' = "done"
            /\ UNCHANGED <<text, rph, result1>>
    /\ UNCHANGED <<varsParse, varsCycles, varsOuter>>

\* one iteration of `while i < len(lines)`
HeaderIter ==
    /\ pc \in {"pass1", "pass2"}
    /\ ~IsEmptyText(text)
    /\ rph.i < Len(rph.lines)
    /\ rph' = RphIter(rph)
    /\ UNCHANGED <<pc, text, result1, result2, varsParse, varsCycles, varsOuter>>

\* the loop has ended: safety checks and return; the second pass starts on the result
HeaderReturn ==
    /\ pc \in {"pass1", "pass2"}
    /\ ~IsEmptyText(text)
    /\ rph.i >= Len(rph.lines)
    /\ IF pc = "pass1"
       THEN /\ result1' = RphReturn(text, rph)
            /\ text' = result1'
            /\ rph' = RphStart(result1')
            /\ pc' = "pass2"
            /\ UNCHANGED result2
       ELSE /\ result2' = RphReturn(text, rph)
            /\ pc' = "done"
            /\ UNCHANGED <<text, rph, result1>>
    /\ UNCHANGED <<varsParse, varsCycles, varsOuter>>

NextHeaders == HeaderEmptyText \/ HeaderIter \/ HeaderReturn

SpecHeaders == InitHeaders /\ [][NextHeaders]_vars

(***************************************************************************)
(* SpecParse: split_text_by_sections and parse_with_python run on a cleaned *)
(* text, one line of a section per step                                    *)
(***************************************************************************)
\* the locals of the call of parse_section_with_python for a section
SectionStartOf(lines, section) ==
    IF section = "admissions" THEN admissions_start(lines) ELSE discharges_start(lines)
StartOf(lines, section) ==
    LET section_lines == IF SectionStartOf(lines, section) = NoIndex THEN <<>>
                         ELSE IF section = "admissions" THEN AdmissionsLines(lines)
                         ELSE DischargesLines(lines)
    IN IF section = "admissions" THEN PspStart(section_lines, L_Admissions, "from_")
       ELSE PspStart(section_lines, L_Discharges, "to_")

InitParse ==
    /\ pc = "split"
    /\ cleaned_text \in ParseTexts
    /\ metadata_text = <<>>
    /\ psp = StartOf(cleaned_text, "admissions")
    /\ admissions_data = <<>>
    /\ discharges_data = <<>>
    /\ structured_data = <<>>
    /\ IdleHeaders
    /\ IdleCycles
    /\ IdleOuter

\* metadata_text, _, _ = split_text_by_sections(cleaned_text), before the call
\* of parse_with_python
SplitSections ==
    /\ pc = "split"
    /\ metadata_text' = split_text_by_sections(cleaned_text).metadata_text
    /\ pc' = "admissions"
    /\ UNCHANGED <<cleaned_text, psp, admissions_data, discharges_data, structured_data,
                   varsHeaders, varsCycles, varsOuter>>

\* the section dict is stored and the next call starts
SectionDone(data) ==
    IF pc = "admissions"
    THEN /\ admissions_data' = data
         /\ psp' = StartOf(cleaned_text, "discharges")
         /\ pc' = "discharges"
         /\ UNCHANGED discharges_data
    ELSE /\ discharges_data' = data
         /\ pc' = "build"
         /\ UNCHANGED <<psp, admissions_data>>

\* `if section_start is None`: the empty section
SectionAbsent ==
    /\ pc \in {"admissions", "discharges"}
    /\ SectionStartOf(cleaned_text, pc) = NoIndex
    /\ SectionDone([name |-> psp.section_name, entries |-> <<>>, subtotals |-> <<>>,
                    total |-> NoTotal])
    /\ UNCHANGED <<cleaned_text, metadata_text, structured_data, varsHeaders, varsCycles, varsOuter>>

\* one iteration of `while i < len(section_lines)`
SectionIter ==
    /\ pc \in {"admissions", "discharges"}
    /\ SectionStartOf(cleaned_text, pc) # NoIndex
    /\ psp.i < Len(psp.section_lines)
    /\ psp' = PspIter(psp)
    /\ UNCHANGED <<pc, cleaned_text, metadata_text, admissions_data, discharges_data, structured_data,
                   varsHeaders, varsCycles, varsOuter>>

\* SectionReturn with the count of the last Total line as the section's total
SectionReturnStatedTotal ==
    /\ pc \in {"admissions", "discharges"}
    /\ SectionStartOf(cleaned_text, pc) # NoIndex
    /\ psp.i >= Len(psp.section_lines)
    /\ SectionDone([name |-> psp.section_name, entries |-> psp.entries,
                    subtotals |-> psp.subtotals,
                    total |-> IF psp.subtotals # <<>>
                              THEN psp.subtotals[Len(psp.subtotals)].count
                              ELSE Len(psp.entries)])
    /\ UNCHANGED <<cleaned_text, metadata_text, structured_data, varsHeaders, varsCycles, varsOuter>>

\* the loop has ended: the section dict is returned
SectionReturn ==
    /\ pc \in {"admissions", "discharges"}
    /\ SectionStartOf(cleaned_text, pc) # NoIndex
    /\ psp.i >= Len(psp.section_lines)
    /\ SectionDone([name |-> psp.section_name, entries |-> psp.entries,
                    subtotals |-> psp.subtotals, total |-> Len(psp.entries)])
    /\ UNCHANGED <<cleaned_text, metadata_text, structured_data, varsHeaders, varsCycles, varsOuter>>

\* sections, grand totals and the validation block are put together
ParseReturn ==
    /\ pc = "build"
    /\ structured_data' = BuildResult(admissions_data, discharges_data)
    /\ pc' = "parsed"
    /\ UNCHANGED <<cleaned_text, metadata_text, psp, admissions_data, discharges_data, varsHeaders,
                   varsCycles, varsOuter>>

NextParse == SplitSections \/ SectionAbsent \/ SectionIter \/ SectionReturn \/ ParseReturn

SpecParse == InitParse /\ [][NextParse]_vars

(***************************************************************************)
(* SpecCycles: the parsed entries are grouped by patient, the names are    *)
(* cleaned, and create_cycles_csv pairs and emits, one patient at a time   *)
(* and one iteration of the sweep per step                                 *)
(***************************************************************************)
Id_Hernandez == <<"2","0","2","7","8","7">>
Id_Zilska == <<"2","0","2","7","0","0">>
\* a second resident who bears the name of the first
Id_Namesake == <<"2","0","3","3","1","1">>
ResidentIds == {Id_Hernandez, Id_Zilska}
NameOf(resident_id) ==
    IF resident_id = Id_Hernandez THEN <<"H","e","r","n","a","n","d","e","z",","," ","M","a","r","i","a">> ELSE <<"Z","i","l","s","k","a",","," ","P","a","t","r","i","c","i","a">>
Loc_Blodgett == <<"B","L","O","D","G","E","T","T">>
Loc_Meadows == <<"M","E","A","D","O","W","S">>

AdmissionOf(resident_id, date) ==
    MkEntry("from_", FT_AcuteCareHospital, Loc_Blodgett, NameOf(resident_id), resident_id, date)
DischargeOf(resident_id, date) ==
    MkEntry("to_", FT_NursingHome, Loc_Meadows, NameOf(resident_id), resident_id, date)

\* the section dict of a list of entries
SectionOf(section_name, entries) ==
    [name |-> section_name, entries |-> entries, subtotals |-> <<>>, total |-> Len(entries)]
StructuredData(adm, dis) ==
    BuildResult(SectionOf(L_Admissions, adm), SectionOf(L_Discharges, dis))

\* the entries a report is made of
AdmissionChoices == {AdmissionOf(id, d) : id \in ResidentIds, d \in EntryDates}
DischargeChoices == {DischargeOf(id, d) : id \in ResidentIds, d \in EntryDates}
\* one patient's entries on two dates: the reports where several discharges
\* fall on the date of an admission
TieAdmissions == {AdmissionOf(Id_Hernandez, d) : d \in {Date_Jan01, Date_Jan05}}
TieDischarges == {DischargeOf(Id_Hernandez, d) : d \in {Date_Jan01, Date_Jan05}}
\* the discharge of a resident whose name another resident of the report bears
NamesakeDischarge(date) ==
    MkEntry("to_", FT_NursingHome, Loc_Meadows, NameOf(Id_Hernandez), Id_Namesake, date)
\* a report has at most MaxEntries entries over its two sections, or is one
\* patient's report of TieEntries admissions and as many discharges
MaxEntries == 3
TieEntries == 2

InitCycles ==
    /\ pc = "group"
    /\ \/ \E m \in 0..MaxEntries : \E k \in 0..(MaxEntries - m) :
            \E adm \in [1..m -> AdmissionChoices] : \E dis \in [1..k -> DischargeChoices] :
                structured_data = StructuredData(adm, dis)
       \/ \E adm \in [1..TieEntries -> TieAdmissions] :
            \E dis \in [1..TieEntries -> TieDischarges] :
                structured_data = StructuredData(adm, dis)
       \/ \E adm \in [1..2 -> AdmissionChoices] : \E d \in EntryDates :
            structured_data = StructuredData(adm, <<NamesakeDischarge(d)>>)
    /\ patient_grouped_data = <<>>
    /\ patient_index = 0
    /\ fsc = <<>>
    /\ cycles_data = <<>>
    /\ cleaned_text = <<>>
    /\ metadata_text = <<>>
    /\ psp = <<>>
    /\ admissions_data = <<>>
    /\ discharges_data = <<>>
    /\ IdleHeaders
    /\ IdleOuter

\* patient_grouped_data = create_patient_grouped_json(structured_data)
GroupPatients ==
    /\ pc = "group"
    /\ patient_grouped_data' = create_patient_grouped_json(structured_data)
    /\ pc' = "clean"
    /\ UNCHANGED <<patient_index, fsc, cycles_data, varsHeaders, varsParse, varsOuter>>

\* patient_grouped_data = clean_punctuation_from_names(patient_grouped_data)
CleanNames ==
    /\ pc = "clean"
    /\ patient_grouped_data' = clean_punctuation_from_names(patient_grouped_data)
    /\ pc' = "fix"
    /\ UNCHANGED <<patient_index, fsc, cycles_data, varsHeaders, varsParse, varsOuter>>

\* patient_grouped_data = fix_empty_first_names(patient_grouped_data)
FixNames ==
    /\ pc = "fix"
    /\ patient_grouped_data' = fix_empty_first_names(patient_grouped_data)
    /\ pc' = "patients"
    /\ UNCHANGED <<patient_index, fsc, cycles_data, varsHeaders, varsParse, varsOuter>>

\* the patient the loop of create_cycles_csv is at
CurrentId == PatientKeys(patient_grouped_data)[patient_index + 1]
CurrentPatient == patient_grouped_data.patients[CurrentId]

\* the next patient: find_subsequent_cycles is called and sorts its two lists
SweepStart ==
    /\ pc = "patients"
    /\ patient_index < Len(PatientKeys(patient_grouped_data))
    /\ fsc' = FscStart(CurrentPatient.admissions, CurrentPatient.discharges)
    /\ pc' = "sweep"
    /\ UNCHANGED <<patient_grouped_data, patient_index, cycles_data, varsHeaders, varsParse, varsOuter>>

\* one iteration of the while loop of find_subsequent_cycles
SweepIter ==
    /\ pc = "sweep"
    /\ FscRunning(fsc)
    /\ fsc' = FscIter(fsc)
    /\ UNCHANGED <<pc, patient_grouped_data, patient_index, cycles_data, varsHeaders, varsParse, varsOuter>>

\* find_subsequent_cycles returns and the rows of the patient are appended
SweepReturn ==
    /\ pc = "sweep"
    /\ ~FscRunning(fsc)
    /\ cycles_data' = cycles_data \o PatientRows(CurrentId, CurrentPatient, fsc.cycles)
    /\ patient_index' = patient_index + 1
    /\ pc' = "patients"
    /\ UNCHANGED <<patient_grouped_data, fsc, varsHeaders, varsParse, varsOuter>>

\* every patient is done: cycles_data is sorted and written
SortRows ==
    /\ pc = "patients"
    /\ patient_index >= Len(PatientKeys(patient_grouped_data))
    /\ cycles_data' = SortedRows(cycles_data)
    /\ pc' = "written"
    /\ UNCHANGED <<patient_grouped_data, patient_index, fsc, varsHeaders, varsParse, varsOuter>>

NextCycles ==
    GroupPatients \/ CleanNames \/ FixNames \/ SweepStart \/ SweepIter \/ SweepReturn \/ SortRows

SpecCycles == InitCycles /\ [][NextCycles]_vars


(***************************************************************************)
(* SpecNames: one patient's report, with the resident_name of its entries  *)
(* drawn from names that need cleaning or repair                           *)
(***************************************************************************)
Name_Plain == <<"H","e","r","n","a","n","d","e","z",","," ","M","a","r","i","a">>
Name_Ampersand == <<"Z","i","l","s","k","a","&",","," ","P","a","t","r","i","c","i","a">>
Name_Spaces == <<"O","'","N","e","i","l","-","S","m","i","t","h"," ",","," "," ","M","a","r","y"," "," ","J","o">>
Name_Quoted == <<"\"","B","r","o","w","n",","," ","L","a","w","r","e","n","c","e","\"">>
Name_TwoWordLast == <<"V","a","n"," ","B","e","r","g",","," ","A","n","n","a">>
Name_NoFirst == <<"V","a","n"," ","B","e","r","g",",">>
Name_FirstCleansAway == <<"V","a","n"," ","D","e","r"," ","B","e","r","g",","," ","=">>
Name_NoFirstOneWord == <<"S","m","i","t","h",",">>
Name_NoLast == <<","," ","M","a","r","i","a">>
RecordNames == {Name_Plain, Name_Ampersand, Name_Spaces, Name_Quoted, Name_TwoWordLast,
                Name_NoFirst, Name_FirstCleansAway, Name_NoFirstOneWord, Name_NoLast}

NamedAdmission(resident_name, date) ==
    MkEntry("from_", FT_AcuteCareHospital, Loc_Blodgett, resident_name, Id_Hernandez, date)
NamedDischarge(resident_name, date) ==
    MkEntry("to_", FT_NursingHome, Loc_Meadows, resident_name, Id_Hernandez, date)
NameDates == {Date_Jan01, Date_Jan05}

InitNames ==
    /\ pc = "group"
    /\ \E resident_name \in RecordNames : \E m \in 0..1 : \E k \in 0..1 :
         \E adm \in [1..m -> {NamedAdmission(resident_name, d) : d \in NameDates}] :
           \E dis \in [1..k -> {NamedDischarge(resident_name, d) : d \in NameDates}] :
             /\ m + k >= 1
             /\ structured_data = StructuredData(adm, dis)
    /\ patient_grouped_data = <<>>
    /\ patient_index = 0
    /\ fsc = <<>>
    /\ cycles_data = <<>>
    /\ cleaned_text = <<>>
    /\ metadata_text = <<>>
    /\ psp = <<>>
    /\ admissions_data = <<>>
    /\ discharges_data = <<>>
    /\ IdleHeaders
    /\ IdleOuter

SpecNames == InitNames /\ [][NextCycles]_vars


(***************************************************************************)
(* process_folder: a batch of PDF files, one after the other or on a       *)
(* ThreadPoolExecutor.  What process_single_pdf does with one file is      *)
(* given with the file: it returns a success dict, returns a failure dict, *)
(* or raises.                                                              *)
(***************************************************************************)
MaxPdfs == 3
MaxWorkers == 2
Outcomes == {"success", "failure", "raises"}

\* the dict process_single_pdf returns for a file (lines 2062-2066, 2306-2312)
SinglePdfResult(pdf_file) ==
    IF pdf_file.outcome = "success"
    THEN [success |-> TRUE, error |-> NoKey, file |-> pdf_file.path]
    ELSE [success |-> FALSE, error |-> "Text extraction failed", file |-> pdf_file.path]
\* pdf_files.index(pdf_file) + 1
IndexOf(pdf_files, pdf_file) == CHOOSE n \in DOMAIN pdf_files : pdf_files[n] = pdf_file
\* what as_completed's loop appends for a finished future: the result of
\* process_with_index, or the dict of the except branch
CompletedResult(pdf_files, pdf_file) ==
    IF pdf_file.outcome = "raises"
    THEN [success |-> FALSE, error |-> "exc", file |-> pdf_file.path,
          index |-> IndexOf(pdf_files, pdf_file)]
    ELSE [success |-> SinglePdfResult(pdf_file).success, error |-> SinglePdfResult(pdf_file).error,
          file |-> pdf_file.path, index |-> IndexOf(pdf_files, pdf_file)]
\* completed_results.sort(key=lambda x: x.get('_index', 999))
ByIndex(seq) == {p \in (DOMAIN seq) \X (DOMAIN seq) : seq[p[1]].index < seq[p[2]].index}
\* {k: v for k, v in result.items() if not k.startswith('_')}
PublicResult(r) == [success |-> r.success, error |-> r.error, file |-> r.file]
CountOf(seq, success) == Cardinality({n \in DOMAIN seq : seq[n].success = success})

InitFolder ==
    /\ pc = "folder"
    /\ \E n \in 0..MaxPdfs : \E outcomes \in [1..n -> Outcomes] :
         \E parallel \in BOOLEAN : \E max_workers \in 1..MaxWorkers :
            pf = [pdf_files |-> [k \in 1..n |-> [path |-> k, outcome |-> outcomes[k]]],
                  parallel |-> parallel, max_workers |-> max_workers,
                  future |-> [k \in 1..n |-> "none"], yielded |-> {},
                  completed_results |-> <<>>, results |-> <<>>,
                  successful |-> 0, failed |-> 0, i |-> 0]
    /\ batch_summary = <<>>
    /\ IdleSingle /\ IdleUpload
    /\ IdleHeaders /\ IdleParse /\ IdleCycles

\* no PDF file in the folder
FolderEmpty ==
    /\ pc = "folder"
    /\ pf.pdf_files = <<>>
    /\ batch_summary' = [success |-> FALSE, total_files |-> 0, successful |-> 0, failed |-> 0,
                         results |-> <<>>]
    /\ pc' = "returned"
    /\ UNCHANGED <<pf, varsSingle, varsUpload, varsHeaders, varsParse, varsCycles>>

\* the branch is chosen; in the parallel branch every file is submitted
FolderStart ==
    /\ pc = "folder"
    /\ pf.pdf_files # <<>>
    /\ IF pf.parallel /\ Len(pf.pdf_files) > 1
       THEN /\ pf' = [pf EXCEPT !.future = [k \in DOMAIN pf.pdf_files |-> "pending"]]
            /\ pc' = "pool"
       ELSE /\ pc' = "sequential"
            /\ UNCHANGED pf
    /\ UNCHANGED <<batch_summary, varsSingle, varsUpload, varsHeaders, varsParse, varsCycles>>

\* one iteration of the sequential loop: process_single_pdf returns
SequentialIter ==
    /\ pc = "sequential"
    /\ pf.i < Len(pf.pdf_files)
    /\ LET pdf_file == pf.pdf_files[pf.i + 1]
           r == SinglePdfResult(pdf_file)
       IN /\ pdf_file.outcome # "raises"
          /\ pf' = [pf EXCEPT !.results = Append(@, r),
                              !.successful = IF r.success THEN @ + 1 ELSE @,
                              !.failed = IF r.success THEN @ ELSE @ + 1,
                              !.i = @ + 1]
    /\ UNCHANGED <<pc, batch_summary, varsSingle, varsUpload, varsHeaders, varsParse, varsCycles>>

\* one iteration of the sequential loop: process_single_pdf raises, and no
\* handler stands between the call and the caller of process_folder
SequentialRaise ==
    /\ pc = "sequential"
    /\ pf.i < Len(pf.pdf_files)
    /\ pf.pdf_files[pf.i + 1].outcome = "raises"
    /\ pc' = "raised"
    /\ UNCHANGED <<pf, batch_summary, varsSingle, varsUpload, varsHeaders, varsParse, varsCycles>>

Running(future) == {k \in DOMAIN future : future[k] = "running"}
Pending(future) == {k \in DOMAIN future : future[k] = "pending"}
\* a worker of the pool takes the next submitted file
WorkerStart ==
    /\ pc = "pool"
    /\ Pending(pf.future) # {}
    /\ Cardinality(Running(pf.future)) < pf.max_workers
    /\ pf' = [pf EXCEPT !.future[SetMin(Pending(pf.future))] = "running"]
    /\ UNCHANGED <<pc, batch_summary, varsSingle, varsUpload, varsHeaders, varsParse, varsCycles>>

\* process_with_index ends on a worker, with a result or with an exception
WorkerFinish ==
    /\ pc = "pool"
    /\ \E k \in Running(pf.future) : pf' = [pf EXCEPT !.future[k] = "finished"]
    /\ UNCHANGED <<pc, batch_summary, varsSingle, varsUpload, varsHeaders, varsParse, varsCycles>>

\* as_completed yields a finished future
Collect ==
    /\ pc = "pool"
    /\ \E k \in DOMAIN pf.future :
          /\ pf.future[k] = "finished"
          /\ k \notin pf.yielded
          /\ pf' = [pf EXCEPT !.yielded = @ \cup {k},
                              !.completed_results =
                                  Append(@, CompletedResult(pf.pdf_files, pf.pdf_files[k]))]
    /\ UNCHANGED <<pc, batch_summary, varsSingle, varsUpload, varsHeaders, varsParse, varsCycles>>

\* every future was yielded: the results are sorted by index and counted
PoolDone ==
    /\ pc = "pool"
    /\ pf.yielded = DOMAIN pf.future
    /\ LET sorted == StableSort(pf.completed_results, ByIndex(pf.completed_results))
       IN pf' = [pf EXCEPT !.completed_results = sorted,
                           !.results = [n \in DOMAIN sorted |-> PublicResult(sorted[n])],
                           !.successful = CountOf(sorted, TRUE),
                           !.failed = CountOf(sorted, FALSE)]
    /\ pc' = "summary"
    /\ UNCHANGED <<batch_summary, varsSingle, varsUpload, varsHeaders, varsParse, varsCycles>>

\* batch_summary is built and returned
FolderReturn ==
    /\ \/ pc = "summary"
       \/ pc = "sequential" /\ pf.i >= Len(pf.pdf_files)
    /\ batch_summary' = [success |-> TRUE, total_files |-> Len(pf.pdf_files),
                         successful |-> pf.successful, failed |-> pf.failed,
                         results |-> pf.results]
    /\ pc' = "returned"
    /\ UNCHANGED <<pf, varsSingle, varsUpload, varsHeaders, varsParse, varsCycles>>

NextFolder ==
    \/ FolderEmpty \/ FolderStart \/ SequentialIter \/ SequentialRaise
    \/ WorkerStart \/ WorkerFinish \/ Collect \/ PoolDone \/ FolderReturn

SpecFolder == InitFolder /\ [][NextFolder]_vars

(***************************************************************************)
(* process_single_pdf: one document from the extracted text to the rows    *)
(***************************************************************************)
\* None where a text is expected
NoText == <<None>>
\* clean_total_lines: "" for an empty text, the text when it has no
\* 'Total: N' line, and None when it has one (the final `return text`
\* stands in the else branch)
clean_total_lines(t) ==
    IF IsEmptyText(t) THEN << <<>> >>
    ELSE IF \E n \in DOMAIN t :
                MatchPrefix(Cat(<<total_head, Plus(Cls(Digit))>>), StrLower(Strip(t[n])))
         THEN NoText
         ELSE t

\* the least len(cleaned_text.strip()) process_single_pdf goes on with
MinCleanedChars == 100

\* the lines the text of a PDF is made of; extract_text_from_pdf ends the
\* text of every page with a newline, and returns None when the PDF cannot
\* be read
SingleLines == {L_Admissions, L_Discharges, L_AcuteBlodgett, L_Row, L_Total1, L_Page}
ExtractedTexts ==
    {NoText, << <<>> >>} \cup {body \o << <<>> >> : body \in SeqsUpTo(SingleLines, MaxLines)}

Failure(error) == [success |-> FALSE, error |-> error]

InitSingle ==
    /\ pc = "extract"
    /\ \E extracted_text \in ExtractedTexts : psf = [extracted_text |-> extracted_text]
    /\ pdf_result = <<>>
    /\ IdleBatch /\ IdleUpload
    /\ IdleHeaders /\ IdleParse /\ IdleCycles

\* `if not extracted_text`
ExtractionFailed ==
    /\ pc = "extract"
    /\ psf.extracted_text = NoText \/ IsEmptyText(psf.extracted_text)
    /\ pdf_result' = Failure("Text extraction failed")
    /\ pc' = "returned"
    /\ UNCHANGED <<psf, varsBatch, varsUpload, varsHeaders, varsParse, varsCycles>>

\* `not cleaned_text or len(cleaned_text.strip()) < 100`
TooShort(t) == IsEmptyText(t) \/ StripLen(t) < MinCleanedChars

\* cleaned_text = remove_page_headers(extracted_text)
RemoveHeaders ==
    /\ pc = "extract"
    /\ psf.extracted_text # NoText /\ ~IsEmptyText(psf.extracted_text)
    /\ cleaned_text' = remove_page_headers(psf.extracted_text)
    /\ pc' = "cleaned"
    /\ UNCHANGED <<metadata_text, psp, admissions_data, discharges_data, structured_data,
                   varsSingle, varsBatch, varsUpload, varsHeaders, varsCycles>>

\* the text without page headers is found too short
CleaningFailed ==
    /\ pc = "cleaned"
    /\ TooShort(cleaned_text)
    /\ pdf_result' = Failure("Text cleaning resulted in empty text")
    /\ pc' = "returned"
    /\ UNCHANGED <<psf, varsBatch, varsUpload, varsHeaders, varsParse, varsCycles>>

\* cleaned_text = clean_total_lines(cleaned_text)
CleanTotals ==
    /\ pc = "cleaned"
    /\ ~TooShort(cleaned_text)
    /\ cleaned_text' = clean_total_lines(cleaned_text)
    /\ pc' = "totals"
    /\ UNCHANGED <<metadata_text, psp, admissions_data, discharges_data, structured_data,
                   varsSingle, varsBatch, varsUpload, varsHeaders, varsCycles>>

\* `if cleaned_text is None`: remove_page_headers is called again
TotalsFallback ==
    /\ pc = "totals"
    /\ cleaned_text = NoText
    /\ cleaned_text' = remove_page_headers(psf.extracted_text)
    /\ UNCHANGED <<pc, metadata_text, psp, admissions_data, discharges_data, structured_data,
                   varsSingle, varsBatch, varsUpload, varsHeaders, varsCycles>>

\* `if not cleaned_text`; the text that passes goes on to steps 2 to 4
CheckCleaned ==
    /\ pc = "totals"
    /\ cleaned_text # NoText
    /\ IF IsEmptyText(cleaned_text)
       THEN /\ pdf_result' = Failure("Text cleaning resulted in empty text")
            /\ pc' = "returned"
       ELSE /\ pc' = "parse"
            /\ UNCHANGED pdf_result
    /\ UNCHANGED <<psf, varsBatch, varsUpload, varsHeaders, varsParse, varsCycles>>

\* steps 2 to 4 on a cleaned text: the text is parsed (SpecParse), grouped and
\* paired (SpecCycles); parse_with_python never returns an empty dict, and
\* create_cycles_csv returns True when the rows are written
CsvWritten ==
    /\ pc = "parse"
    /\ pdf_result' = [success |-> TRUE, error |-> NoKey]
    /\ pc' = "returned"
    /\ UNCHANGED <<psf, varsBatch, varsUpload, varsHeaders, varsParse, varsCycles>>

\* create_cycles_csv could not write the file and has returned False
CsvFailed ==
    /\ pc = "parse"
    /\ pdf_result' = Failure("CSV creation failed")
    /\ pc' = "returned"
    /\ UNCHANGED <<psf, varsBatch, varsUpload, varsHeaders, varsParse, varsCycles>>

\* the open() of save_json stands in no try: its exception leaves
\* process_single_pdf
JsonSaveRaises ==
    /\ pc = "parse"
    /\ pc' = "raised"
    /\ UNCHANGED <<varsSingle, varsBatch, varsUpload, varsHeaders, varsParse, varsCycles>>

NextSingle ==
    \/ ExtractionFailed \/ RemoveHeaders \/ CleaningFailed \/ CleanTotals \/ TotalsFallback
    \/ CheckCleaned \/ CsvWritten \/ CsvFailed \/ JsonSaveRaises

SpecSingle == InitSingle /\ [][NextSingle]_vars

(***************************************************************************)
(* upload_files (backend/routes/upload.py): one request, one job           *)
(***************************************************************************)
MaxUploads == 2
\* str(uuid.uuid4()) of the request
Id_Job == "job-1"
\* the categories, in the order the handler saves them
Categories == <<"adt", "los", "visits">>
\* file.filename of an uploaded part: empty for a part without a file
Filenames == {"", "a.pdf"}
UploadLists == UNION {[1..n -> Filenames] : n \in 0..MaxUploads}
\* str(e) of HTTPException(status_code=400, detail='No files were uploaded'):
\* '400: No files were uploaded' where the class defines __str__, '' where it
\* does not
StrOfNoFiles == {"400: No files were uploaded", ""}
\* str(e) of the OSError of mkdir or open
StrOfOSError == "[Errno 28] No space left on device"
\* f"{total_files}"
NumStr(n) == <<"0", "1", "2", "3", "4", "5", "6", "7", "8", "9">>[n + 1]
\* len(adt_files_saved) + len(los_files_saved) + len(visit_files_saved)
TotalSaved(saved) == Len(saved[1]) + Len(saved[2]) + Len(saved[3])

InitUpload ==
    /\ pc = "upload"
    /\ job_status = <<>>
    /\ background_tasks = <<>>
    /\ response = <<>>
    /\ \E adt_files \in UploadLists : \E los_files \in UploadLists :
         \E visit_files \in UploadLists : \E comparison_mode \in {"None", "true"} :
            up = [files |-> <<adt_files, los_files, visit_files>>,
                  comparison_mode |-> comparison_mode,
                  saved |-> <<<<>>, <<>>, <<>>>>,
                  category |-> 1, i |-> 0,
                  total_files |-> NoTotal, error_msg |-> "None"]
    /\ IdleSingle /\ IdleBatch
    /\ IdleHeaders /\ IdleParse /\ IdleCycles

\* job_status[job_id] of lines 38-50
NewJob ==
    [status |-> "uploading", progress |-> 0, message |-> "Uploading files...",
     files |-> <<<<>>, <<>>, <<>>>>, comparison_mode |-> FALSE, errors |-> <<>>]

\* the job is registered and its directories are made
UploadStart ==
    /\ pc = "upload"
    /\ job_status' = (Id_Job :> NewJob)
    /\ pc' = "save"
    /\ UNCHANGED <<up, background_tasks, response, varsSingle, varsBatch,
                   varsHeaders, varsParse, varsCycles>>

\* the job is registered and a mkdir raises
MkdirRaises ==
    /\ pc = "upload"
    /\ job_status' = (Id_Job :> NewJob)
    /\ up' = [up EXCEPT !.error_msg = StrOfOSError]
    /\ pc' = "except"
    /\ UNCHANGED <<background_tasks, response, varsSingle, varsBatch,
                   varsHeaders, varsParse, varsCycles>>

\* the file the loop of the category is at
CurrentFile == up.files[up.category][up.i + 1]
InCategory == pc = "save" /\ up.category <= 3 /\ up.i < Len(up.files[up.category])

\* `if file.filename`: the file is written and recorded
SaveFile ==
    /\ InCategory
    /\ CurrentFile # ""
    /\ up' = [up EXCEPT !.saved[up.category] = Append(@, CurrentFile), !.i = @ + 1]
    /\ job_status' = [job_status EXCEPT ![Id_Job].files[up.category] = Append(@, CurrentFile)]
    /\ UNCHANGED <<pc, background_tasks, response, varsSingle, varsBatch,
                   varsHeaders, varsParse, varsCycles>>

\* `if file.filename` is false: nothing is saved
SkipFile ==
    /\ InCategory
    /\ CurrentFile = ""
    /\ up' = [up EXCEPT !.i = @ + 1]
    /\ UNCHANGED <<pc, job_status, background_tasks, response, varsSingle, varsBatch,
                   varsHeaders, varsParse, varsCycles>>

\* open or copyfileobj raises
SaveRaises ==
    /\ InCategory
    /\ CurrentFile # ""
    /\ up' = [up EXCEPT !.error_msg = StrOfOSError]
    /\ pc' = "except"
    /\ UNCHANGED <<job_status, background_tasks, response, varsSingle, varsBatch,
                   varsHeaders, varsParse, varsCycles>>

\* the loop of a category ends
NextCategory ==
    /\ pc = "save"
    /\ up.category <= 3
    /\ up.i = Len(up.files[up.category])
    /\ up' = [up EXCEPT !.category = @ + 1, !.i = 0]
    /\ UNCHANGED <<pc, job_status, background_tasks, response, varsSingle, varsBatch,
                   varsHeaders, varsParse, varsCycles>>

\* `if total_files == 0`: status and message are set, HTTPException(400) is
\* raised inside the try and reaches `except Exception`
NoFilesUploaded ==
    /\ pc = "save"
    /\ up.category = 4
    /\ TotalSaved(up.saved) = 0
    /\ job_status' = [job_status EXCEPT ![Id_Job].status = "error",
                                        ![Id_Job].message = "No files were uploaded"]
    /\ \E error_msg \in StrOfNoFiles :
          up' = [up EXCEPT !.total_files = 0, !.error_msg = error_msg]
    /\ pc' = "except"
    /\ UNCHANGED <<background_tasks, response, varsSingle, varsBatch,
                   varsHeaders, varsParse, varsCycles>>

\* total_files > 0: the options are stored, the job is 'uploaded', process_job
\* is scheduled and the handler returns
ScheduleJob ==
    /\ pc = "save"
    /\ up.category = 4
    /\ TotalSaved(up.saved) > 0
    /\ up' = [up EXCEPT !.total_files = TotalSaved(up.saved)]
    /\ job_status' =
          [job_status EXCEPT
              ![Id_Job].comparison_mode = (up.comparison_mode = "true"),
              ![Id_Job].status = "uploaded",
              ![Id_Job].progress = 10,
              ![Id_Job].message = "Uploaded " \o NumStr(TotalSaved(up.saved))
                                      \o " file(s). Starting processing..."]
    /\ background_tasks' = Append(background_tasks, <<"process_job", Id_Job>>)
    /\ response' = [status_code |-> 200, success |-> TRUE, job_id |-> Id_Job,
                    files |-> up.saved]
    /\ pc' = "returned"
    /\ UNCHANGED <<varsSingle, varsBatch, varsHeaders, varsParse, varsCycles>>

\* `except Exception as e`: the job is marked and HTTPException(500) is raised
ExceptHandler ==
    /\ pc = "except"
    /\ job_status' =
          IF Id_Job \in DOMAIN job_status
          THEN [job_status EXCEPT ![Id_Job].status = "error",
                                  ![Id_Job].message = "Upload failed: " \o up.error_msg,
                                  ![Id_Job].errors = Append(@, up.error_msg)]
          ELSE job_status
    /\ response' = [status_code |-> 500, detail |-> up.error_msg]
    /\ pc' = "raised"
    /\ UNCHANGED <<up, background_tasks, varsSingle, varsBatch,
                   varsHeaders, varsParse, varsCycles>>

NextUpload ==
    \/ UploadStart \/ MkdirRaises \/ SaveFile \/ SkipFile \/ SaveRaises \/ NextCategory
    \/ NoFilesUploaded \/ ScheduleJob \/ ExceptHandler

SpecUpload == InitUpload /\ [][NextUpload]_vars
(***************************************************************************)
(* Claims                                                                  *)
(***************************************************************************)
\* C1: every row of create_cycles_csv whose admission_date and discharge_date
\* both parse as dates has discharge_date >= admission_date.
C1_CycleMonotonicity ==
    \A n \in DOMAIN cycles_data :
        LET admission_date == parse_date(cycles_data[n].admission_date)
            discharge_date == parse_date(cycles_data[n].discharge_date)
        IN (admission_date # NoDate /\ discharge_date # NoDate)
               => discharge_date >= admission_date
\* the CSV is written, it has a row with both dates, and on the way a discharge
\* that lies before the admission was passed over
C1_Witness ==
    /\ pc = "written"
    /\ \E n \in DOMAIN cycles_data :
           /\ parse_date(cycles_data[n].admission_date) # NoDate
           /\ parse_date(cycles_data[n].discharge_date) # NoDate
           /\ \E d \in Range(patient_grouped_data.patients[cycles_data[n].resident_id].discharges) :
                  /\ parse_date(d.effective_date) # NoDate
                  /\ parse_date(d.effective_date) < parse_date(cycles_data[n].admission_date)

\* C2: the resident_ids of the rows create_cycles_csv produces are exactly the
\* resident_ids of the Admissions and Discharges entries: no id is invented and
\* no patient that has entries is left without a row.
C2_NoFabrication ==
    pc = "written" =>
        {cycles_data[n].resident_id : n \in DOMAIN cycles_data} = PatientIds(structured_data)

\* C3: once the sweep of a patient has ended, every admission that is in no cycle
\* is emitted as an admission-only row (discharge fields empty) and every
\* discharge that is in no cycle as a discharge-only row (admission fields
\* empty); admissions [2025-01-01, 2025-03-01] with discharges [2025-01-05] give
\* the cycle row (2025-01-01, 2025-01-05) and an admission-only row for 2025-03-01.
C3_UnpairedEmitted ==
    pc = "written" =>
        \A id \in DOMAIN patient_grouped_data.patients :
            LET patient == patient_grouped_data.patients[id]
                rows == {r \in Range(cycles_data) : r.resident_id = id}
            IN /\ \A a \in Range(patient.admissions) :
                      \/ \E r \in rows : r.admission_src = a.src /\ r.discharge_src # NoSrc
                      \/ \E r \in rows :
                             /\ r.admission_src = a.src
                             /\ r.admission_date = a.effective_date
                             /\ r.discharge_date = <<>>
                             /\ r.to_location = <<>>
                             /\ r.to_type = <<>>
               /\ \A d \in Range(patient.discharges) :
                      \/ \E r \in rows : r.discharge_src = d.src /\ r.admission_src # NoSrc
                      \/ \E r \in rows :
                             /\ r.discharge_src = d.src
                             /\ r.discharge_date = d.effective_date
                             /\ r.admission_date = <<>>
                             /\ r.from_location = <<>>
                             /\ r.from_type = <<>>

\* the position of a sub-entry in a sorted list of the sweep
PositionIn(sorted, entry) == CHOOSE p \in DOMAIN sorted : sorted[p].src = entry.src
\* no admission and no discharge is in two cycles of the sweep
C4_AtMostOnce ==
    \A m, n \in DOMAIN fsc.cycles :
        m # n => /\ fsc.cycles[m][1].src # fsc.cycles[n][1].src
                 /\ fsc.cycles[m][2].src # fsc.cycles[n][2].src
\* every discharge of a cycle lies before the discharge the sweep is at
C4_PairedBehind ==
    \A n \in DOMAIN fsc.cycles :
        PositionIn(fsc.sorted_discharges, fsc.cycles[n][2]) <= fsc.discharge_index
\* a step of the sweep never moves back over the discharges, and moves on from
\* the discharge it pairs or skips
C4_MovesOn ==
    (pc = "sweep" /\ pc' = "sweep") =>
        LET admission_date ==
                parse_date(fsc.sorted_admissions[fsc.admission_index + 1].effective_date)
            discharge_date ==
                parse_date(fsc.sorted_discharges[fsc.discharge_index + 1].effective_date)
        IN /\ fsc'.discharge_index >= fsc.discharge_index
           /\ (Len(fsc'.cycles) > Len(fsc.cycles)
               \/ (admission_date # NoDate /\ discharge_date # NoDate
                   /\ discharge_date < admission_date))
                  => fsc'.discharge_index > fsc.discharge_index
\* the discharges of the date of the admission of cycle n
SameDate(n) ==
    {p \in DOMAIN fsc.sorted_discharges :
        parse_date(fsc.sorted_discharges[p].effective_date)
            = parse_date(fsc.cycles[n][1].effective_date)}
\* in a cycle of equal dates the discharge is the first of that date in sorted order
C4_TieFirst ==
    \A n \in DOMAIN fsc.cycles :
        parse_date(fsc.cycles[n][2].effective_date) = parse_date(fsc.cycles[n][1].effective_date)
            => \A p \in SameDate(n) : p >= PositionIn(fsc.sorted_discharges, fsc.cycles[n][2])
\* in a cycle of equal dates the discharge is the first of that date, in sorted
\* order, that is in no earlier cycle
C4_TieFirstAvailable ==
    \A n \in DOMAIN fsc.cycles :
        parse_date(fsc.cycles[n][2].effective_date) = parse_date(fsc.cycles[n][1].effective_date)
            => \A p \in SameDate(n) :
                   \/ p >= PositionIn(fsc.sorted_discharges, fsc.cycles[n][2])
                   \/ \E m \in 1..(n - 1) :
                          fsc.cycles[m][2].src = fsc.sorted_discharges[p].src

\* C4 (as stated): in find_subsequent_cycles each admission and each discharge
\* is in at most one cycle, a discharge already paired or skipped is never
\* examined again, and when a discharge has the date of the current admission
\* the first such discharge in sorted order is the one paired with it.
C4_AsStated ==
    /\ [](pc = "sweep" => C4_AtMostOnce /\ C4_PairedBehind /\ C4_TieFirst)
    /\ [][C4_MovesOn]_vars
\* C4 (amended): in find_subsequent_cycles each admission and each discharge is
\* in at most one cycle, a discharge already paired or skipped is never examined
\* again, and when a discharge has the date of the current admission the first
\* such discharge in sorted order that is not already paired is the one paired
\* with it.
C4_FirstAvailable ==
    /\ [](pc = "sweep" => C4_AtMostOnce /\ C4_PairedBehind /\ C4_TieFirstAvailable)
    /\ [][C4_MovesOn]_vars
\* the sweep has ended with two cycles, the second one of equal dates, and the
\* discharge of the first one has that date too
C4_Witness ==
    /\ pc = "sweep"
    /\ ~FscRunning(fsc)
    /\ Len(fsc.cycles) = 2
    /\ fsc.cycles[2][1].effective_date = fsc.cycles[2][2].effective_date
    /\ fsc.cycles[1][2].effective_date = fsc.cycles[2][2].effective_date

\* C5: remove_page_headers is idempotent: run on its own output it returns
\* that output unchanged.
C5_Idempotent == pc = "done" => result2 = result1

\* a line the header normalizer takes for a page header: one of its patterns or
\* one of its multi-line keys matches
PageHeaderLine(line) ==
    MatchedCategory(Strip(line)) # NoKey \/ HeaderKey(Strip(line)) # NoKey
\* C6: the number of entries parse_section_with_python produces from a section
\* with page-header lines between the rows of a block equals the number it
\* produces from the same section without those lines.
C6_Conservation ==
    (pc \in {"admissions", "discharges"} /\ psp.i >= Len(psp.section_lines)) =>
        Len(psp.entries)
            = Len(PspLoop(PspStart(SelectSeq(psp.section_lines,
                                             LAMBDA line : ~PageHeaderLine(line)),
                                   psp.section_name, psp.key_prefix)).entries)
\* a section is parsed to its end that has a header line between two rows, the
\* second row a continuation row, and both rows are entries
C6_Witness ==
    /\ pc \in {"admissions", "discharges"}
    /\ psp.i >= Len(psp.section_lines)
    /\ \E n \in DOMAIN psp.section_lines :
           /\ n + 2 \in DOMAIN psp.section_lines
           /\ psp.section_lines[n] \in {L_AcuteBlodgett, L_Row}
           /\ PageHeaderLine(psp.section_lines[n + 1])
           /\ psp.section_lines[n + 2] = L_Row
    /\ Len(psp.entries) = 2

\* C7: 'Acute care hospital Blodgett Brown, Lawrence (202720) 07/22/2025' then
\* 'Hernandez, Maria (202787) 08/21/2025' in the Admissions section give exactly
\* two entries, both with from_type 'Acute care hospital' and from_location
\* 'Blodgett'.
C7_BlockHeaderRow ==
    (pc = "parsed" /\ cleaned_text = <<L_Admissions, L_AcuteBlodgett, L_Row>>) =>
        LET entries == structured_data.sections[1].entries
        IN /\ Len(entries) = 2
           /\ \A n \in DOMAIN entries :
                  /\ entries[n].from_type = FT_AcuteCareHospital
                  /\ entries[n].from_location = <<"B","l","o","d","g","e","t","t">>

\* C8: a line where '<location> & <Last>, <First> (<id>) <date>' follows the
\* facility type gives one entry with last name 'Zilska', first name 'Patricia'
\* and location 'MCLAREN VISITING NURSE'; the '&' is in neither.
C8_AmpersandSeparator ==
    (pc = "parsed" /\ cleaned_text = <<L_Admissions, L_McLaren>>) =>
        LET entries == structured_data.sections[1].entries
        IN /\ Len(entries) = 1
           /\ entries[1].resident_name = <<"Z","i","l","s","k","a",","," ","P","a","t","r","i","c","i","a">>
           /\ entries[1].from_location = <<"M","C","L","A","R","E","N"," ","V","I","S","I","T","I","N","G"," ","N","U","R","S","E">>

\* C9: a line that is a type token and then the resident pattern, with no
\* location text between them, gives exactly one entry with that type and no
\* location: 'Unknown Workman, Rodney (202745) 08/20/2025' gives type 'Unknown',
\* location None, resident_name 'Workman, Rodney', and 'Other Health Facility
\* Barclay, Paul (202605) 07/09/2025' gives type 'Other Health Facility' (not
\* 'Other'), location None.
C9_TypeThenResident ==
    [][(pc \in {"admissions", "discharges"} /\ psp.i < Len(psp.section_lines)
        /\ psp.section_lines # <<>>) =>
          LET line == psp.section_lines[psp.i + 1]
          IN /\ line = L_UnknownWorkman =>
                    psp'.entries = Append(psp.entries,
                        MkEntry(psp.key_prefix, FT_Unknown, None, <<"W","o","r","k","m","a","n",","," ","R","o","d","n","e","y">>,
                                <<"2","0","2","7","4","5">>, <<"2","0","2","5","-","0","8","-","2","0">>))
             /\ line = L_OtherBarclay =>
                    psp'.entries = Append(psp.entries,
                        MkEntry(psp.key_prefix, FT_OtherHealthFacility, None,
                                <<"B","a","r","c","l","a","y",","," ","P","a","u","l">>, <<"2","0","2","6","0","5">>, <<"2","0","2","5","-","0","7","-","0","9">>))]_vars
\* 'Other Health Facility Barclay, Paul ...' has been parsed in the Discharges
\* section, inside a block that had a type and a location to hand on
C9_Witness ==
    /\ pc = "discharges"
    /\ psp.i = 3
    /\ psp.section_lines[2] = L_NursingMeadows
    /\ psp.section_lines[3] = L_OtherBarclay
    /\ Len(psp.entries) = 1
    /\ psp.entries[1].to_type = FT_OtherHealthFacility
    /\ psp.entries[1].to_location = None

\* C10: when the entries since the last checkpoint differ in number from the N
\* of a 'Total: N' line a mismatch warning is recorded, and none when they
\* agree: 9 resident lines then 'Total: 7' give a warning, then 'Total: 9' none.
C10_MismatchWarning ==
    pc = "parsed" =>
        /\ cleaned_text = <<L_Admissions>> \o NineRows \o <<L_Total7>>
               => structured_data.validation.warnings # <<>>
        /\ cleaned_text = <<L_Admissions>> \o NineRows \o <<L_Total9>>
               => structured_data.validation.warnings = <<>>

(***************************************************************************)
(* Claims C11 to C20                                                       *)
(***************************************************************************)
\* a line that is 'Total: N' and nothing else
IsTotalLine(line) ==
    MatchFull(Cat(<<total_head, Plus(Cls(Digit))>>), StrLower(Strip(line)))
\* the Total lines a stated number is drawn from
StatedTotals == {L_Total1, L_Total2, L_Total7, L_Total9}
\* C11: a 'Total: N' line never adds, removes or alters entries: the entry
\* list parse_section_with_python produces from a section is the same whatever
\* number N each of its Total lines states.
C11_TotalFrame ==
    (pc \in {"admissions", "discharges"} /\ psp.i >= Len(psp.section_lines)) =>
        \A n \in DOMAIN psp.section_lines : \A stated \in StatedTotals :
            IsTotalLine(psp.section_lines[n]) =>
                PspLoop(PspStart([psp.section_lines EXCEPT ![n] = stated],
                                 psp.section_name, psp.key_prefix)).entries
                    = psp.entries
\* a section is parsed to its end whose Total line states more entries than
\* its block has, and a row follows the Total line
C11_Witness ==
    /\ pc \in {"admissions", "discharges"}
    /\ psp.i >= Len(psp.section_lines)
    /\ \E n \in DOMAIN psp.section_lines :
           /\ n + 2 \in DOMAIN psp.section_lines
           /\ psp.section_lines[n] = L_Row
           /\ psp.section_lines[n + 1] = L_Total2
           /\ psp.section_lines[n + 2] = L_Row
    /\ Len(psp.entries) = 2

\* the line ends with '(<id>) <date>': an id of 4 to 10 characters A-Z, 0-9 and
\* a date of one or two digits, one or two digits and four digits
HasIdAndDate(line) ==
    \E i \in DOMAIN line :
        (Len(line) + 1) \in Ends(Cat(<<Lit(<<"(">>), Rep(Cls(Upper \cup Digit), 4, 10),
                                       Lit(<<")">>), Plus(Cls(WS)), SlashDate>>), line, i)
\* a name can be isolated: ', <First>' stands right before the id
HasName(line) ==
    \E i \in DOMAIN line :
        /\ line[i] = ","
        /\ Ends(Cat(<<Star(Cls(WS)), first_name_group, Star(Cls(WS)), Lit(<<"(">>)>>),
                line, i + 1) # {}
\* resident_id and effective_date of an entry are there
HasIdAndEffectiveDate(entry) ==
    /\ MatchFull(Rep(Cls(Upper \cup Digit), 4, 10), entry.resident_id)
    /\ MatchFull(Cat(<<D4, Lit(<<"-">>), Rep(Cls(Digit), 2, 2), Lit(<<"-">>),
                       Rep(Cls(Digit), 2, 2)>>), entry.effective_date)
\* C12: every entry parse_section_with_python emits has a resident_id of 4 to
\* 10 alphanumeric characters and an effective_date, and a line from which the
\* id or the date cannot be extracted, or no name can be isolated, adds no entry.
C12_IdAndDatePresent ==
    /\ [](pc \in {"admissions", "discharges"} =>
            \A n \in DOMAIN psp.entries : HasIdAndEffectiveDate(psp.entries[n]))
    /\ [][(pc \in {"admissions", "discharges"} /\ psp.i < Len(psp.section_lines)
           /\ psp.section_lines # <<>>) =>
             LET line == Strip(psp.section_lines[psp.i + 1])
             IN (~HasIdAndDate(line) \/ ~HasName(line)) => psp'.entries = psp.entries]_vars
\* a line with an id of three characters has been passed over, after a line
\* with an id of ten letters and digits that gave an entry
C12_Witness ==
    /\ pc \in {"admissions", "discharges"}
    /\ psp.i = 3
    /\ psp.section_lines[2] = L_Id10
    /\ psp.section_lines[3] = L_Id3
    /\ Len(psp.entries) = 1
    /\ psp.entries[1].resident_id = <<"M","G","B","4","0","4","4","0","0","1">>
    /\ psp.entries[1].effective_date = <<"2","0","2","5","-","0","8","-","0","1">>

\* the while loop of remove_page_headers has ended and its checks are next
HeaderLoopEnded == pc \in {"pass1", "pass2"} /\ ~IsEmptyText(text) /\ rph.i >= Len(rph.lines)
\* the lines of the input the loop deletes from st on: the iterations that
\* append nothing to cleaned_lines
RECURSIVE DeletedLines(_)
DeletedLines(st) ==
    IF st.i >= Len(st.lines) THEN 0
    ELSE (IF RphIter(st).cleaned_lines = st.cleaned_lines THEN 1 ELSE 0)
         + DeletedLines(RphIter(st))
\* C13: remove_page_headers returns the original text unchanged whenever its
\* pass deletes more than 50% of the lines of the input.
C13_HalfDeletedAborts ==
    [][(HeaderLoopEnded /\ pc = "pass1"
        /\ 2 * DeletedLines(RphStart(text)) > Len(text)) => result1' = text]_vars

\* len(s) of a whole text
CharLen(lines) == Len(JoinLines(lines))
\* the value the call returns in this step
Returned(p, r1, r2) == IF p = "pass1" THEN r1 ELSE r2
\* C14 with the character lengths of the texts as they are, untrimmed
C14_AsStated ==
    [][HeaderLoopEnded =>
         LET result == AsText(rph.cleaned_lines)
         IN /\ (10 * CharLen(result) < 3 * CharLen(text) \/ StripLen(result) = 0)
                   => Returned(pc, result1', result2') = text
            /\ ~IsEmptyText(Returned(pc, result1', result2'))]_vars
\* C14: remove_page_headers returns the original text unchanged whenever the
\* cleaned text, trimmed, would be shorter than 30% of the trimmed original or
\* would be empty, and for a non-empty input it never returns an empty result.
C14_ShortResultAborts ==
    [][HeaderLoopEnded =>
         LET result == AsText(rph.cleaned_lines)
         IN /\ (10 * StripLen(result) < 3 * StripLen(text) \/ StripLen(result) = 0)
                   => Returned(pc, result1', result2') = text
            /\ ~IsEmptyText(Returned(pc, result1', result2'))]_vars

\* the call has returned a text of a short header line, an empty line and a
\* long repeat of the header, of which the loop keeps less than 30%
C14_Witness ==
    /\ pc = "pass2"
    /\ result1 = <<L_ToFromShort, L_Empty, L_ToFromType>>
    /\ RphLoop(RphStart(result1)).cleaned_lines = <<L_ToFromShort, L_Empty>>
    /\ 10 * StripLen(RphLoop(RphStart(result1)).cleaned_lines) < 3 * StripLen(result1)

\* the lines of a text that match a header-pattern category
LinesOfCategory(lines, category) ==
    SelectSeq(lines, LAMBDA line : MatchedCategory(Strip(line)) = category)
\* C15: for each header-pattern category remove_page_headers keeps the first
\* line of that category in document order and deletes every later line of the
\* category: of the lines of a category the cleaned lines hold the first one only.
C15_FirstOfCategoryKept ==
    HeaderLoopEnded =>
        \A n \in DOMAIN header_patterns :
            LET matching == LinesOfCategory(rph.lines, header_patterns[n].category)
            IN LinesOfCategory(rph.cleaned_lines, header_patterns[n].category)
                   = IF matching = <<>> THEN <<>> ELSE <<matching[1]>>

\* the resident_name every entry of a resident_id carries, or None when the
\* entries differ
NameOfEntries(data, resident_id) ==
    LET names == {entry.resident_name :
                    entry \in {e \in Range(SectionEntries(data, L_Admissions))
                                     \cup Range(SectionEntries(data, L_Discharges)) :
                                 e.resident_id = resident_id}}
    IN IF Cardinality(names) = 1 THEN CHOOSE name \in names : TRUE ELSE None
\* 'Last, First': one comma, with Last before it and First after it
IsLastFirst(name) == Cardinality({n \in DOMAIN name : name[n] = ","}) = 1
LastOf(name) ==
    clean_name_punctuation(Strip(Slice(StripCh(name, {"\""}), 0, Find(StripCh(name, {"\""}), <<",">>))))
FirstOf(name) ==
    clean_name_punctuation(Strip(Slice(StripCh(name, {"\""}),
                                       Find(StripCh(name, {"\""}), <<",">>) + 1,
                                       Len(StripCh(name, {"\""})))))
\* the repair path: no first name and a last name of several words
NeedsRepair(name) == FirstOf(name) = <<>> /\ Len(SplitWS(LastOf(name))) >= 2
\* C16 with full_name 'Last, First' for every name that is not repaired
C16_AsStated ==
    pc \in {"patients", "sweep", "written"} =>
        \A id \in DOMAIN patient_grouped_data.patients :
            LET name == NameOfEntries(structured_data, id)
                record == patient_grouped_data.patients[id]
                words == SplitWS(LastOf(name))
            IN (name # None /\ IsLastFirst(name)) =>
                   IF NeedsRepair(name)
                   THEN /\ record.first_name = words[1]
                        /\ record.last_name = Join(Tail(words), <<" ">>)
                        /\ record.full_name = record.last_name \o <<","," ">> \o record.first_name
                   ELSE record.full_name = LastOf(name) \o <<","," ">> \o FirstOf(name)
\* C16: for a PatientRecord built from entries whose resident_name is
\* 'Last, First', after grouping, name cleaning and the repair of empty first
\* names full_name is the cleaned 'Last, First' when both cleaned names are not
\* empty and the one name that is not empty otherwise, unless the repair path
\* fired (no first name, a last name of several words): then full_name is
\* '<new last>, <new first>' of the repaired split, the first word of the last
\* name being the new first name and the remaining words the new last name.
C16_NameRoundTrip ==
    pc \in {"patients", "sweep", "written"} =>
        \A id \in DOMAIN patient_grouped_data.patients :
            LET name == NameOfEntries(structured_data, id)
                record == patient_grouped_data.patients[id]
                words == SplitWS(LastOf(name))
            IN (name # None /\ IsLastFirst(name)) =>
                   IF NeedsRepair(name)
                   THEN /\ record.first_name = words[1]
                        /\ record.last_name = Join(Tail(words), <<" ">>)
                        /\ record.full_name = record.last_name \o <<","," ">> \o record.first_name
                   ELSE IF FirstOf(name) # <<>> /\ LastOf(name) # <<>>
                   THEN record.full_name = LastOf(name) \o <<","," ">> \o FirstOf(name)
                   ELSE IF LastOf(name) # <<>> THEN record.full_name = LastOf(name)
                   ELSE record.full_name = FirstOf(name)
\* the names have been cleaned and repaired for a record whose entries read
\* 'Van Der Berg, =' (repaired to 'Der Berg, Van')
C16_Witness ==
    /\ pc = "patients"
    /\ NameOfEntries(structured_data, Id_Hernandez) = Name_FirstCleansAway
    /\ patient_grouped_data.patients[Id_Hernandez].full_name = <<"D","e","r"," ","B","e","r","g",","," ","V","a","n">>

\* the first line (1-based) whose trimmed content is the marker, 0 when none
FirstMarker(lines, marker) ==
    IF \E n \in DOMAIN lines : Strip(lines[n]) = marker
    THEN SetMin({n \in DOMAIN lines : Strip(lines[n]) = marker}) ELSE 0
\* a resident line: a line that parsed on its own gives an entry
IsResidentLine(line) ==
    Len(PspLoop(PspStart(<<line>>, L_Admissions, "from_")).entries) = 1
\* the resident lines among the lines from..to of a text
ResidentLinesIn(lines, from, to) ==
    SelectSeq(SubSeq(lines, from, to), IsResidentLine)
\* C17: the split uses the first line whose trimmed content is 'Admissions' and
\* the first whose trimmed content is 'Discharges'; the resident lines between
\* the Admissions marker and the Discharges marker are parsed as admission
\* entries only, and those after the Discharges marker as discharge entries only.
C17_SectionSplit ==
    pc = "parsed" =>
        LET a == FirstMarker(cleaned_text, L_Admissions)
            d == FirstMarker(cleaned_text, L_Discharges)
            admissions == structured_data.sections[1].entries
            discharges == structured_data.sections[2].entries
        IN /\ (a # 0 /\ d # 0) =>
                  Len(admissions) = Len(ResidentLinesIn(cleaned_text, a + 1, d - 1))
           /\ d # 0 =>
                  Len(discharges) = Len(ResidentLinesIn(cleaned_text, d + 1, Len(cleaned_text)))
           /\ \A n \in DOMAIN admissions : "from_type" \in DOMAIN admissions[n]
           /\ \A n \in DOMAIN discharges : "to_type" \in DOMAIN discharges[n]
\* a text is parsed that has one row between the markers and one after the
\* Discharges marker, which has blanks around it
C17_Witness ==
    /\ pc = "parsed"
    /\ cleaned_text = <<L_Admissions, L_Row, L_DischargesPadded, L_Row>>
    /\ Len(structured_data.sections[1].entries) = 1
    /\ Len(structured_data.sections[2].entries) = 1

\* C18: when a section marker is absent the section is emitted with no
\* entries, no subtotals and total None; when the marker is present the total of
\* the section is the number of entries parsed from it, whatever number a Total
\* line states.
C18_SectionTotals ==
    pc = "parsed" =>
        \A n \in {1, 2} :
            LET section == structured_data.sections[n]
                marker == IF n = 1 THEN L_Admissions ELSE L_Discharges
            IN /\ section.name = marker
               /\ IF FirstMarker(cleaned_text, marker) = 0
                  THEN section.entries = <<>> /\ section.subtotals = <<>>
                       /\ section.total = NoTotal
                  ELSE section.total = Len(section.entries)
\* nine resident lines and 'Total: 7' are parsed: the Admissions section has
\* total 9 and a subtotal of count 7, the absent Discharges section total None
C18_Witness ==
    /\ pc = "parsed"
    /\ cleaned_text = <<L_Admissions>> \o NineRows \o <<L_Total7>>
    /\ structured_data.sections[1].total = 9
    /\ structured_data.sections[1].subtotals[1].count = 7
    /\ structured_data.sections[2].total = NoTotal
    /\ structured_data.sections[2].entries = <<>>

\* the first section marker of a text, whichever it is: its line (1-based), 0
\* when the text has no marker
FirstSectionMarker(lines) ==
    LET a == FirstMarker(lines, L_Admissions)
        d == FirstMarker(lines, L_Discharges)
    IN IF a = 0 THEN d ELSE IF d = 0 THEN a ELSE IF a < d THEN a ELSE d
\* C19: split_text_by_sections returns as metadata prologue exactly the lines
\* before the first section marker of the text, 'Admissions' or 'Discharges',
\* also when there is no Admissions marker and only a Discharges marker.
C19_MetadataPrologue ==
    (pc \in {"admissions", "discharges", "build", "parsed"}
     /\ FirstSectionMarker(cleaned_text) # 0) =>
        metadata_text = AsText(SubSeq(cleaned_text, 1, FirstSectionMarker(cleaned_text) - 1))

\* a list is in ascending date order, the entries whose date does not parse
\* after all the others, and entries of equal key in the order of their section
AscendingUnparseableLast(list) ==
    \A i \in DOMAIN list : \A j \in DOMAIN list :
        i < j =>
            LET di == parse_date(list[i].effective_date)
                dj == parse_date(list[j].effective_date)
            IN /\ di = NoDate => dj = NoDate
               /\ (di # NoDate /\ dj # NoDate) => di <= dj
               /\ di = dj => list[i].src < list[j].src
\* C20: the admission list and the discharge list of each patient, as the
\* cycle sweep uses them, are in ascending effective_date order, every entry
\* whose date does not parse after all entries whose dates parse, and entries
\* with equal keys in their original relative order.
C20_SortedUnparseableLast ==
    pc = "sweep" =>
        /\ AscendingUnparseableLast(fsc.sorted_admissions)
        /\ AscendingUnparseableLast(fsc.sorted_discharges)


\* the key of the sort of create_cycles_csv, compared as Python compares tuples
KeyLessEq(x, y) == ~RowLess(y, x)
\* C21: the rows create_cycles_csv writes are in non-decreasing order of the
\* key (last_name, first_name, admission_date or '9999-12-31'), so that among
\* the rows of one name a row without admission_date comes after the rows that
\* have one.
C21_RowsSortedByKey ==
    pc = "written" =>
        /\ \A n \in 1..(Len(cycles_data) - 1) : KeyLessEq(cycles_data[n], cycles_data[n + 1])
        /\ \A i \in DOMAIN cycles_data : \A j \in DOMAIN cycles_data :
               (/\ cycles_data[i].last_name = cycles_data[j].last_name
                /\ cycles_data[i].first_name = cycles_data[j].first_name
                /\ cycles_data[i].admission_date # <<>>
                /\ cycles_data[j].admission_date = <<>>) => i < j
\* the CSV is written; the sort moved a row of 'Zilska' behind the rows of
\* 'Hernandez', and a row of 'Hernandez' without admission_date stands behind
\* a dated row of that name
C21_Witness ==
    /\ pc = "written"
    /\ \E i \in DOMAIN cycles_data : \E j \in DOMAIN cycles_data :
           /\ i < j
           /\ cycles_data[i].last_name = cycles_data[j].last_name
           /\ cycles_data[i].first_name = cycles_data[j].first_name
           /\ cycles_data[i].admission_date # <<>>
           /\ cycles_data[j].admission_date = <<>>
    /\ \E i \in DOMAIN cycles_data :
           /\ cycles_data[i].resident_id = Id_Zilska
           /\ i = Len(cycles_data)
           /\ PatientKeys(patient_grouped_data)[1] = Id_Zilska

\* the results of the batch: one per file found, in the order of pdf_files
OneResultPerFile(results, pdf_files) ==
    /\ Len(results) = Len(pdf_files)
    /\ \A n \in DOMAIN pdf_files : results[n].file = pdf_files[n].path
\* C22: in process_folder, sequential or parallel, a failure or an exception
\* while one PDF is processed does not stop the others: when process_folder
\* ends, every PDF found has exactly one result and successful + failed is
\* total_files.
C22_SiblingsUnaffected ==
    (pc \in {"returned", "raised"} /\ pf # <<>> /\ pf.pdf_files # <<>>) =>
        /\ batch_summary # <<>>
        /\ OneResultPerFile(batch_summary.results, pf.pdf_files)
        /\ batch_summary.successful + batch_summary.failed = batch_summary.total_files
        /\ batch_summary.total_files = Len(pf.pdf_files)

\* the document has no usable text: it could not be read, or its text is
\* empty or blank
NoUsableText(extracted_text) ==
    extracted_text = NoText \/ IsEmptyText(extracted_text) \/ StripLen(extracted_text) = 0
\* C23: process_single_pdf reports a document as failed before it emits rows
\* only when the document has no usable text; every document whose extracted
\* text is not empty, however short, is parsed, grouped and written as rows.
C23_OnlyEmptyTextStops ==
    (pc = "returned" /\ psf # <<>> /\ ~NoUsableText(psf.extracted_text)) =>
        \/ pdf_result.success
        \/ pdf_result.error = "CSV creation failed"

\* the type and the location of an entry or a subtotal, under its key prefix
TypeOf(d, key_prefix) == IF key_prefix = "from_" THEN d.from_type ELSE d.to_type
LocationOf(d, key_prefix) == IF key_prefix = "from_" THEN d.from_location ELSE d.to_location
\* line n of a section, stripped, is looked at by the loop and is a Total line,
\* a block header (it starts with a facility type), a row without a type
LookedAt(st, n) == ~IsSkippedLine(Strip(st.section_lines[n]), st.section_name)
IsTotalAt(st, n) == LookedAt(st, n) /\ TotalSearch(Strip(st.section_lines[n])).ok
IsHeaderAt(st, n) == LookedAt(st, n) /\ MatchedType(Strip(st.section_lines[n])) # None
IsPlainRowAt(st, n) ==
    /\ LookedAt(st, n)
    /\ MatchedType(Strip(st.section_lines[n])) = None
    /\ extract_patient_from_line(Strip(st.section_lines[n])).ok
\* the block the first n lines of a section leave open: the type and the
\* location of the last block header after the last Total line, read from the
\* header line alone; None and None when there is no such header
OpenBlock(st, n) ==
    LET headers == {j \in 1..n : IsHeaderAt(st, j) /\ \A k \in (j + 1)..n : ~IsTotalAt(st, k)}
    IN IF headers = {} THEN [type |-> None, location |-> None]
       ELSE LET alone == PspIter(PspStart(<<st.section_lines[SetMax(headers)]>>,
                                          st.section_name, st.key_prefix))
            IN [type |-> alone.current_type, location |-> alone.current_location]
\* C24: in parse_section_with_python a 'Total: N' line resets the block state
\* to type None, location None and no block entries, and no other line clears
\* the type: after any number of lines the state is that of the last block
\* header since the last Total line.  A row without a type prefix gets the
\* type and the location of that header, whatever lines that match nothing lie
\* in between, and leaves the state as it was.
C24_BlockStateCarried ==
    (pc \in {"admissions", "discharges"} /\ psp.i <= Len(psp.section_lines)) =>
        LET now == OpenBlock(psp, psp.i)
            before == OpenBlock(psp, psp.i - 1)
        IN /\ psp.current_type = now.type
           /\ psp.current_location = now.location
           /\ (psp.i >= 1 /\ IsTotalAt(psp, psp.i)) =>
                  /\ psp.current_type = None
                  /\ psp.current_location = None
                  /\ psp.current_block_entries = <<>>
           /\ (psp.i >= 1 /\ IsPlainRowAt(psp, psp.i)) =>
                  /\ psp.entries # <<>>
                  /\ TypeOf(psp.entries[Len(psp.entries)], psp.key_prefix)
                         = (IF before.type # None THEN before.type ELSE FT_Unknown)
                  /\ LocationOf(psp.entries[Len(psp.entries)], psp.key_prefix) = before.location
                  /\ ~IsTotalAt(psp, psp.i) => now = before
\* a block header without a resident, a page line that matches nothing, then
\* a row: the row has the type and the location of the header
C24_Witness ==
    /\ pc = "admissions"
    /\ psp.i = 4
    /\ SubSeq(psp.section_lines, 1, 4) = <<L_Admissions, L_NursingMeadows, L_Page, L_Row>>
    /\ psp.entries[1].from_type = FT_NursingHome
    /\ psp.entries[1].from_location = Loc_Meadows
    /\ psp.current_type = FT_NursingHome

\* C25: every 'Total: N' line of a section appends exactly one subtotal with
\* count N and source 'detail', with the type and the location of the block it
\* closes, whatever the parser state is when the line is reached: also after
\* another Total line, and after rows that follow no block header.
C25_SubtotalPerTotalLine ==
    (pc \in {"admissions", "discharges"} /\ psp.i <= Len(psp.section_lines)) =>
        /\ Len(psp.subtotals) = Cardinality({n \in 1..psp.i : IsTotalAt(psp, n)})
        /\ (psp.i >= 1 /\ IsTotalAt(psp, psp.i)) =>
               /\ psp.subtotals # <<>>
               /\ LET subtotal == psp.subtotals[Len(psp.subtotals)]
                  IN /\ subtotal.count = TotalSearch(Strip(psp.section_lines[psp.i])).total_count
                     /\ subtotal.source = "detail"
                     /\ TypeOf(subtotal, psp.key_prefix) = OpenBlock(psp, psp.i - 1).type
                     /\ LocationOf(subtotal, psp.key_prefix) = OpenBlock(psp, psp.i - 1).location

\* the loop of remove_page_headers run from st until n lines are behind it
RECURSIVE RphUpTo(_, _)
RphUpTo(st, n) == IF st.i < n /\ st.i < Len(st.lines) THEN RphUpTo(RphIter(st), n) ELSE st
\* lines j and j + 1 (1-based) are a multi-line header block: a 'Report by:' or
\* 'To/From Type:' label line and the facility-type line that continues it
BlockAt(lines, j) ==
    /\ j + 1 \in DOMAIN lines
    /\ HeaderKey(Strip(lines[j])) \in {"report_by_multiline", "to_from_type"}
    /\ IsContinuation(Strip(lines[j + 1]))
\* the block at j repeats a block that stands before it
RepeatBlockAt(lines, j) ==
    /\ BlockAt(lines, j)
    /\ \E k \in 1..(j - 2) :
          /\ BlockAt(lines, k)
          /\ lines[k] = lines[j]
          /\ lines[k + 1] = lines[j + 1]
\* C26: when a multi-line header block occurs again after its first
\* occurrence, remove_page_headers deletes both lines of the repeat: the loop
\* keeps nothing of the label line and nothing of the continuation line.
C26_RepeatBlockDeleted ==
    (HeaderLoopEnded /\ pc = "pass1") =>
        \A j \in DOMAIN rph.lines :
            (RepeatBlockAt(rph.lines, j) /\ RphUpTo(RphStart(rph.lines), j - 1).i = j - 1) =>
                RphUpTo(RphStart(rph.lines), j + 1).cleaned_lines
                    = RphUpTo(RphStart(rph.lines), j - 1).cleaned_lines

\* a is b with some of its lines left out: nothing added, nothing repeated,
\* nothing altered, nothing moved
RECURSIVE IsSubsequence(_, _)
IsSubsequence(a, b) ==
    IF a = <<>> THEN TRUE
    ELSE IF b = <<>> THEN FALSE
    ELSE IF Head(a) = Head(b) THEN IsSubsequence(Tail(a), Tail(b))
    ELSE IsSubsequence(a, Tail(b))
\* C27: the lines remove_page_headers returns are an order-preserving
\* subsequence of the lines of its input, no line added, duplicated, altered or
\* reordered, and every resident row of the input is among them.
C27_OutputIsSubsequence ==
    HeaderLoopEnded =>
        /\ IsSubsequence(RphReturn(text, rph), text)
        /\ SelectSeq(RphReturn(text, rph), IsResidentLine) = SelectSeq(text, IsResidentLine)

\* the sub-entries of a list that were made from the entry at position n
MadeFrom(list, n) == {k \in DOMAIN list : list[k].src = n}
\* C28: create_patient_grouped_json makes exactly one patient record per
\* distinct resident_id of the entries of both sections, and over all patients
\* the admissions lists hold exactly one sub-entry per Admissions entry and the
\* discharges lists exactly one per Discharges entry: each entry is found once,
\* with its date, type and location, under its own resident_id and nowhere else.
C28_OneSubEntryPerEntry ==
    (patient_grouped_data # <<>> /\ psf = <<>>) =>
        LET adm == SectionEntries(structured_data, L_Admissions)
            dis == SectionEntries(structured_data, L_Discharges)
            patients == patient_grouped_data.patients
        IN /\ DOMAIN patients = {adm[n].resident_id : n \in DOMAIN adm}
                                    \cup {dis[n].resident_id : n \in DOMAIN dis}
           /\ \A id \in DOMAIN patients :
                 /\ patients[id].resident_id = id
                 /\ \A n \in DOMAIN adm :
                       /\ Cardinality(MadeFrom(patients[id].admissions, n))
                              = IF adm[n].resident_id = id THEN 1 ELSE 0
                       /\ \A k \in MadeFrom(patients[id].admissions, n) :
                              patients[id].admissions[k] = AdmissionEntry(adm[n], n)
                 /\ \A n \in DOMAIN dis :
                       /\ Cardinality(MadeFrom(patients[id].discharges, n))
                              = IF dis[n].resident_id = id THEN 1 ELSE 0
                       /\ \A k \in MadeFrom(patients[id].discharges, n) :
                              patients[id].discharges[k] = DischargeEntry(dis[n], n)
                 /\ \A k \in DOMAIN patients[id].admissions :
                       patients[id].admissions[k].src \in DOMAIN adm
                 /\ \A k \in DOMAIN patients[id].discharges :
                       patients[id].discharges[k].src \in DOMAIN dis
\* the report is grouped: two patients, one of them with two admissions of
\* the same date, which stay two sub-entries
C28_Witness ==
    /\ pc = "clean"
    /\ Cardinality(DOMAIN patient_grouped_data.patients) = 2
    /\ \E id \in DOMAIN patient_grouped_data.patients :
          /\ Len(patient_grouped_data.patients[id].admissions) = 2
          /\ patient_grouped_data.patients[id].admissions[1].effective_date
                 = patient_grouped_data.patients[id].admissions[2].effective_date

\* the two indices of the loop of find_subsequent_cycles, added
IndexSum(st) == st.admission_index + st.discharge_index
\* C29: the two-pointer loop of find_subsequent_cycles terminates, unparseable
\* dates included: the indices start at 0 and never pass the lengths of their
\* lists, and whenever the condition of the while holds the iteration makes
\* the admission index, the discharge index or both larger by one and neither
\* smaller, so that the loop runs at most len(admissions) + len(discharges)
\* iterations.
C29_EveryIterationAdvances ==
    pc = "sweep" =>
        /\ fsc.admission_index \in 0..Len(fsc.sorted_admissions)
        /\ fsc.discharge_index \in 0..Len(fsc.sorted_discharges)
        /\ IndexSum(FscStart(CurrentPatient.admissions, CurrentPatient.discharges)) = 0
        /\ FscRunning(fsc) =>
               /\ FscIter(fsc).admission_index
                      \in {fsc.admission_index, fsc.admission_index + 1}
               /\ FscIter(fsc).discharge_index
                      \in {fsc.discharge_index, fsc.discharge_index + 1}
               /\ IndexSum(FscIter(fsc)) > IndexSum(fsc)
               /\ FscIter(fsc).sorted_admissions = fsc.sorted_admissions
               /\ FscIter(fsc).sorted_discharges = fsc.sorted_discharges
\* the loop has ended on lists with an unparseable admission date, after an
\* iteration that advanced the admission index alone
C29_Witness ==
    /\ pc = "sweep"
    /\ ~FscRunning(fsc)
    /\ \E n \in DOMAIN fsc.sorted_admissions :
          parse_date(fsc.sorted_admissions[n].effective_date) = NoDate
    /\ fsc.discharge_index >= 1
    /\ fsc.admission_index > fsc.discharge_index

\* no part of the request has a filename
NoNamedFile == \A c \in 1..3 : \A n \in DOMAIN up.files[c] : up.files[c][n] = ""
\* C30: when no file of the request has a filename in any category and
\* upload_files has reached its validation and ended, the job has status
\* 'error' with message 'No files were uploaded', the answer has HTTP status
\* 400, and process_job was not scheduled.
C30_NoFilesAnswers400 ==
    (pc \in {"returned", "raised"} /\ up # <<>> /\ NoNamedFile /\ up.total_files = 0) =>
        /\ job_status[Id_Job].status = "error"
        /\ job_status[Id_Job].message = "No files were uploaded"
        /\ response.status_code = 400
        /\ background_tasks = <<>>
====
